---- MODULE Spec2Model ----
(***************************************************************************)
(* Model of the URDF -> SDF converter (parser_urdf.cc, kept here as        *)
(* src/unnamed/part_000): the process-wide extension table g_extensions,   *)
(* ParseSDFExtension, the fixed joint reduction (ReduceFixedJoints and the *)
(* Reduce*ToParent helpers) and the emission pass (CreateSDF).             *)
(*                                                                         *)
(* Conventions.  A std::string that the code only compares as a whole (a   *)
(* link name, a map key) is a TLA+ string.  A string that the code takes   *)
(* apart or builds by concatenation (a group name, the text of an XML      *)
(* node) is a sequence of tokens, so that prefix tests, find("/"),         *)
(* substr() and operator+ are computed on it.  A pose is a position and a  *)
(* rotation about the Z axis in quarter turns, which keeps the arithmetic  *)
(* of TransformToParentFrame exact and non-commutative.                    *)
(***************************************************************************)
EXTENDS Integers, Sequences, FiniteSets, TLC

VARIABLES
  pc,            \* where the caller of the converter stands
  calls,         \* number of InitModelString calls made by this process
  doc,           \* the input of the current call (the parsed URDF document)
  links,         \* urdf::Link objects of the robot model, by link name
  origin,        \* origin pose of every urdf::Visual / urdf::Collision object
  g_extensions,  \* std::map<std::string, std::vector<SDFExtension*> >
  allocated,     \* number of SDFExtension objects allocated so far
  stack,         \* activation records of ReduceFixedJoints
  trace,         \* calls and lumpings of ReduceFixedJoints, in order
  out,           \* the TiXmlDocument returned by the call
  log,           \* messages sent to sdferr / sdfwarn by the current call
  element,       \* an sdf::Element a caller of SDF.hh builds and reads
  ret,           \* the last call made on a function taken alone, and its result
  sensor         \* the two sdf::Sensor objects a caller of Sensor.cc holds

vars == <<pc, calls, doc, links, origin, g_extensions, allocated, stack,
          trace, out, log, element, ret, sensor>>

----------------------------------------------------------------------------
(* Bounds of the model *)

MaxLinks == 4       \* links of a robot whose geometry is explored
MaxExtLinks == 3    \* links of a robot that carries <sdf> extensions
MaxExt == 3         \* <sdf> elements of one document
MaxCalls == 2       \* conversions run by one process

----------------------------------------------------------------------------
(* Small helpers on sequences *)

Range(s) == {s[i] : i \in 1..Len(s)}

RECURSIVE SeqsUpTo(_, _)
SeqsUpTo(S, n) ==
  IF n = 0 THEN {<<>>}
  ELSE LET shorter == SeqsUpTo(S, n - 1)
       IN  shorter \cup {Append(s, x) : s \in {t \in shorter : Len(t) = n - 1}, x \in S}

RemoveAt(s, i) == SubSeq(s, 1, i - 1) \o SubSeq(s, i + 1, Len(s))

RECURSIVE Flatten(_)
Flatten(ss) == IF ss = <<>> THEN <<>> ELSE Head(ss) \o Flatten(Tail(ss))

----------------------------------------------------------------------------
(* Poses *)

Pose(p, r) == [pos |-> p, rot |-> r]

IdentityPose == Pose(<<0, 0, 0>>, 0)

\* sdf::Quaternion * sdf::Vector3 for a rotation of k quarter turns about Z
RotateVector(k, v) ==
  CASE k % 4 = 0 -> v
    [] k % 4 = 1 -> <<0 - v[2], v[1], v[3]>>
    [] k % 4 = 2 -> <<0 - v[1], 0 - v[2], v[3]>>
    [] k % 4 = 3 -> <<v[2], 0 - v[1], v[3]>>

VecAdd(a, b) == <<a[1] + b[1], a[2] + b[2], a[3] + b[3]>>
VecSub(a, b) == <<a[1] - b[1], a[2] - b[2], a[3] - b[3]>>

\* faulty variant: translate first, then rotate
TransformToParentFrameTranslateFirst(inLink, parentToLink) ==
  Pose(RotateVector(parentToLink.rot, VecAdd(parentToLink.pos, inLink.pos)),
       (parentToLink.rot + inLink.rot) % 4)

TransformToParentFrame(inLink, parentToLink) ==
  LET rotated == RotateVector(parentToLink.rot, inLink.pos)
  IN  Pose(VecAdd(parentToLink.pos, rotated),
           (parentToLink.rot + inLink.rot) % 4)

inverseTransformToParentFrame(inLink, parentToLink) ==
  LET ri == (4 - (parentToLink.rot % 4)) % 4
  IN  Pose(VecSub(RotateVector(ri, inLink.pos), parentToLink.pos),
           (ri + inLink.rot) % 4)

----------------------------------------------------------------------------
(* Text and XML nodes (TiXmlElement) *)

\* an element: its tag, its text (GetKeyValueAsString) and its child elements
Elem(name, text, sub) == [name |-> name, attr |-> <<>>, text |-> text, sub |-> sub]

\* an element with attributes, each a pair <<name, value>>
ElemWith(name, attr, sub) == [name |-> name, attr |-> attr, text |-> <<>>, sub |-> sub]

\* TiXmlElement::Attribute(name), "" when the attribute is not set
Attribute(e, name) ==
  IF \E i \in 1..Len(e.attr) : e.attr[i][1] = name
  THEN e.attr[CHOOSE i \in 1..Len(e.attr) : e.attr[i][1] = name][2]
  ELSE <<>>

\* TiXmlNode::FirstChild(name): index of the first child of that name, or 0
FirstChild(e, name) ==
  IF \E i \in 1..Len(e.sub) : e.sub[i].name = name
  THEN CHOOSE i \in 1..Len(e.sub) :
         /\ e.sub[i].name = name
         /\ \A j \in 1..(i - 1) : e.sub[j].name # name
  ELSE 0

RemoveChild(e, i) == [e EXCEPT !.sub = RemoveAt(@, i)]
LinkEndChild(e, kid) == [e EXCEPT !.sub = Append(@, kid)]

\* GetKeyValueAsString: the "value" attribute, else the Value() of the first
\* child node (the text, or the tag of a child element), else nothing
GetKeyValueAsString(e) ==
  IF \E i \in 1..Len(e.attr) : e.attr[i][1] = "value" THEN Attribute(e, "value")
  ELSE IF e.text # <<>> THEN e.text
  ELSE IF e.sub # <<>> THEN <<e.sub[1].name>>
  ELSE <<>>

\* the number a numeric text denotes: boost::lexical_cast<double> accepts
\* exactly the texts that are the decimal form of a number
NumRange == -9..9
IsNumeral(text) == Len(text) = 1 /\ \E n \in NumRange : ToString(n) = text[1]
NumeralValue(text) == CHOOSE n \in NumRange : ToString(n) = text[1]
NumText(n) == <<ToString(n)>>

----------------------------------------------------------------------------
(* Extension records (SDFExtension) and ParseSDFExtension *)

NumericFields ==
  {"dampingFactor", "maxVel", "minDepth", "mu1", "mu2", "kp", "kd",
   "laserRetro", "stopCfm", "stopErp", "initialJointPosition", "fudgeFactor"}

\* a freshly constructed SDFExtension; id stands for the object's address
NewSDFExtension(id) ==
  [id |-> id,
   oldLinkName |-> "",
   material |-> <<>>,
   fdir1 |-> <<>>,
   setStaticFlag |-> FALSE,
   gravity |-> TRUE,
   selfCollide |-> FALSE,
   provideFeedback |-> FALSE,
   cfmDamping |-> FALSE,
   isSet |-> {},
   num |-> [f \in NumericFields |-> 0],
   blobs |-> <<>>,
   reductionTransform |-> IdentityPose]

\* std::transform(..., ::tolower) on the texts the model uses
lowerStr(text) ==
  [i \in 1..Len(text) |->
     CASE text[i] = "TRUE" -> "true"
       [] text[i] = "FALSE" -> "false"
       [] text[i] = "YES" -> "yes"
       [] text[i] = "NO" -> "no"
       [] OTHER -> text[i]]

IsTrueText(text) ==
  lowerStr(text) = <<"true">> \/ lowerStr(text) = <<"yes">> \/ text = <<"1">>

IsFalseText(text) ==
  lowerStr(text) = <<"false">> \/ lowerStr(text) = <<"no">> \/ text = <<"0">>

\* the branch of ParseSDFExtension for a child of tag n and value v.
\* threw: boost::lexical_cast raised bad_lexical_cast, which nothing catches
ParseValue(s, n, v, child) ==
  CASE n = "material" -> [sdf |-> [s EXCEPT !.material = v], threw |-> FALSE]
    [] n = "static" ->
         [sdf |-> [s EXCEPT !.setStaticFlag = IsTrueText(v)], threw |-> FALSE]
    [] n = "gravity" ->
         [sdf |-> [s EXCEPT !.gravity = ~IsFalseText(v)], threw |-> FALSE]
    [] n = "fdir1" -> [sdf |-> [s EXCEPT !.fdir1 = v], threw |-> FALSE]
    [] n = "selfCollide" ->
         [sdf |-> [s EXCEPT !.selfCollide = IsTrueText(v)], threw |-> FALSE]
    [] n = "provideFeedback" ->
         [sdf |-> [s EXCEPT !.provideFeedback = IsTrueText(v)], threw |-> FALSE]
    [] n = "cfmDamping" ->
         [sdf |-> [s EXCEPT !.cfmDamping = IsTrueText(v)], threw |-> FALSE]
    [] n \in NumericFields ->
         IF IsNumeral(v)
         THEN [sdf |-> [s EXCEPT !.isSet = @ \cup {n}, !.num[n] = NumeralValue(v)],
               threw |-> FALSE]
         ELSE [sdf |-> [s EXCEPT !.isSet = @ \cup {n}], threw |-> TRUE]
    [] OTHER -> [sdf |-> [s EXCEPT !.blobs = Append(@, child)], threw |-> FALSE]

\* one iteration of the loop over the children of an <sdf> element
ParseChild(sdf, refStr, child) ==
  ParseValue([sdf EXCEPT !.oldLinkName = refStr], child.name,
             GetKeyValueAsString(child), child)

\* the loop over the children of an <sdf> element from child i on; r holds
\* the record so far and whether a cast threw, which ends the loop
RECURSIVE ParseChildren(_, _, _, _)
ParseChildren(r, refStr, children, i) ==
  IF r.threw \/ i > Len(children) THEN r
  ELSE ParseChildren(ParseChild(r.sdf, refStr, children[i]), refStr, children, i + 1)

\* the map with an (empty) entry for key, as std::map::insert leaves it
WithKey(ext, key) ==
  IF key \in DOMAIN ext THEN ext
  ELSE [k \in DOMAIN ext \cup {key} |-> IF k = key THEN <<>> ELSE ext[k]]

EmptyExtensions == [k \in {} |-> <<>>]

\* the end of one iteration of the loop over the <sdf> elements: the parsed
\* record r is pushed under refStr, unless a cast threw before the push_back
PushExtension(keyed, refStr, r, next) ==
  IF r.threw
  THEN [ext |-> keyed, threw |-> TRUE, next |-> next]
  ELSE [ext |-> [keyed EXCEPT ![refStr] = Append(@, r.sdf)],
        threw |-> FALSE, next |-> next]

\* one iteration: the key is inserted, an SDFExtension is allocated and filled
ParseElement(acc, elem) ==
  PushExtension(WithKey(acc.ext, elem.reference), elem.reference,
                ParseChildren([sdf |-> NewSDFExtension(acc.next + 1), threw |-> FALSE],
                              elem.reference, elem.children, 1),
                acc.next + 1)

\* the loop over the <sdf> elements of the robot, from element i on.
\* acc.next: the number of SDFExtension objects allocated so far
RECURSIVE ParseSDFExtensionFrom(_, _, _)
ParseSDFExtensionFrom(acc, elems, i) ==
  IF acc.threw \/ i > Len(elems) THEN acc
  ELSE ParseSDFExtensionFrom(ParseElement(acc, elems[i]), elems, i + 1)

ParseSDFExtension(ext, elems, next) ==
  ParseSDFExtensionFrom([ext |-> ext, threw |-> FALSE, next |-> next], elems, 1)

----------------------------------------------------------------------------
(* Numbers written to and read from XML text *)

\* operator<< of a yaw angle (urdf::Rotation::getRPY, radians) of r quarter turns
YawText(r) ==
  CASE r % 4 = 0 -> "0"
    [] r % 4 = 1 -> "1.5708"
    [] r % 4 = 2 -> "3.14159"
    [] r % 4 = 3 -> "-1.5708"

XyzText(v) == <<ToString(v[1]), ToString(v[2]), ToString(v[3])>>
RpyText(r) == <<"0", "0", YawText(r)>>
PoseText(p) == XyzText(p.pos) \o RpyText(p.rot)

\* the loop of ParseVector3 over the pieces of the text: the values pushed
\* so far, or the first piece that is no number
RECURSIVE ParsePieces(_, _, _, _)
ParsePieces(pieces, i, scale, vals) ==
  IF i > Len(pieces) THEN [vals |-> vals, bad |-> 0]
  ELSE IF pieces[i] = "" THEN ParsePieces(pieces, i + 1, scale, vals)
  ELSE IF IsNumeral(<<pieces[i]>>)
       THEN ParsePieces(pieces, i + 1, scale,
                        Append(vals, scale * NumeralValue(<<pieces[i]>>)))
       ELSE [vals |-> vals, bad |-> i]

\* the value ParseVector3 returns once the loop is over.  The code returns
\* Vector3(vals[0], vals[1], vals[3]): index 3 is never filled, and neither
\* are 0 and 1 for a shorter text, so those reads yield undef, the value
\* the build happens to find there.
VectorRead(vals, k, undef) == IF k <= Len(vals) THEN vals[k] ELSE undef

\* faulty variant: after a piece that is no number, what was read is returned
VectorOfReadSoFar(r, undef) ==
  [vec |-> <<VectorRead(r.vals, 1, undef), VectorRead(r.vals, 2, undef),
             VectorRead(r.vals, 4, undef)>>,
   log |-> IF r.bad # 0
           THEN <<[level |-> "err", what |-> "not a valid double", about |-> ""]>>
           ELSE <<>>]

VectorOf(r, undef) ==
  IF r.bad # 0
  THEN [vec |-> <<0, 0, 0>>,
        log |-> <<[level |-> "err", what |-> "not a valid double", about |-> ""]>>]
  ELSE [vec |-> <<VectorRead(r.vals, 1, undef), VectorRead(r.vals, 2, undef),
                  VectorRead(r.vals, 4, undef)>>,
        log |-> <<>>]

\* ParseVector3 on a non-null key
ParseVector3(text, scale, undef) == VectorOf(ParsePieces(text, 1, scale, <<>>), undef)

\* ParseVector3 on a TiXmlNode*: <<>> is the null pointer, <<text>> a node
\* whose Value() is text
ParseVector3Node(key, scale, undef) ==
  IF key # <<>> THEN ParseVector3(key[1], scale, undef)
  ELSE [vec |-> <<0, 0, 0>>, log |-> <<>>]

----------------------------------------------------------------------------
(* Rewriting of the blobs of an extension record during lumping.          *)
(* linkName is the link being lumped, newLinkName its parent; every        *)
(* operator returns the blob as the code leaves it and what it logged.     *)

NoLog(blob) == [blob |-> blob, log |-> <<>>]

\* r, with the earlier messages put before what it logged
After(earlier, r) == [r EXCEPT !.log = earlier \o @]

\* the child at index i is removed and a new element of the same tag with
\* that text is linked at the end
ReplaceChildText(e, i, text) ==
  LinkEndChild(RemoveChild(e, i), Elem(e.sub[i].name, text, <<>>))

\* the <pose> child at index old, if there is one, gives way to a new <pose>
ReplacePose(blob, old, reductionTransform) ==
  LinkEndChild(IF old # 0 THEN RemoveChild(blob, old) ELSE blob,
               Elem("pose", PoseText(reductionTransform), <<>>))

ReduceSDFExtensionSensorTransformReduction(blob, reductionTransform) ==
  IF blob.name = "sensor"
  THEN ReplacePose(blob, FirstChild(blob, "pose"), reductionTransform)
  ELSE blob

ReduceSDFExtensionProjectorTransformReduction(blob, reductionTransform) ==
  IF blob.name = "projector"
  THEN ReplacePose(blob, FirstChild(blob, "pose"), reductionTransform)
  ELSE blob

ReduceSDFExtensionsTransform(ge) ==
  [ge EXCEPT !.blobs =
     [i \in 1..Len(ge.blobs) |->
        ReduceSDFExtensionProjectorTransformReduction(
          ReduceSDFExtensionSensorTransformReduction(
            ge.blobs[i], ge.reductionTransform),
          ge.reductionTransform)]]

\* the <collision> at index cj of the <contact> at index ci is renamed when
\* it names the collision of the lumped link
RenameContactCollision(blob, ci, cj, linkName, newLinkName) ==
  IF cj # 0 /\ GetKeyValueAsString(blob.sub[ci].sub[cj]) = <<linkName, "_collision">>
  THEN [blob EXCEPT !.sub[ci] =
          ReplaceChildText(@, cj, <<newLinkName, "_collision_", linkName>>)]
  ELSE blob

ContactCollisionAt(blob, ci, linkName, newLinkName) ==
  IF ci # 0
  THEN RenameContactCollision(blob, ci, FirstChild(blob.sub[ci], "collision"),
                              linkName, newLinkName)
  ELSE blob

ReduceSDFExtensionContactSensorFrameReplace(blob, linkName, newLinkName) ==
  IF blob.name = "sensor"
  THEN ContactCollisionAt(blob, FirstChild(blob, "contact"), linkName, newLinkName)
  ELSE blob

\* ParseVector3 is given the element node, whose Value() is its tag
OffsetVector(blob, i, scale, undef) == ParseVector3(<<blob.sub[i].name>>, scale, undef)

\* the <xyzOffset> at index xi, if any, sets the position of the transform
\* and is removed; t is [blob, pose, log]
TakeXyzOffset(t, xi, v1) ==
  IF xi # 0
  THEN [blob |-> RemoveChild(t.blob, xi),
        pose |-> [t.pose EXCEPT !.pos = v1.vec],
        log |-> t.log \o v1.log]
  ELSE t

\* the <rpyOffset> at index ri, if any, sets the rotation of the transform
\* (EulerToQuaternion of a yaw given in quarter turns) and is removed
TakeRpyOffset(t, ri, rpy) ==
  IF ri # 0
  THEN [blob |-> RemoveChild(t.blob, ri),
        pose |-> [t.pose EXCEPT !.rot = rpy.vec[3] % 4],
        log |-> t.log \o rpy.log]
  ELSE t

\* the new <xyzOffset> and <rpyOffset> of the transform are linked at the end
PutOffsets(t, pose) ==
  [blob |-> LinkEndChild(
              LinkEndChild(t.blob, Elem("xyzOffset", XyzText(pose.pos), <<>>)),
              Elem("rpyOffset", RpyText(pose.rot), <<>>)),
   log |-> t.log]

XyzStep(t, undef) ==
  TakeXyzOffset(t, FirstChild(t.blob, "xyzOffset"),
                OffsetVector(t.blob, FirstChild(t.blob, "xyzOffset"), 1, undef))

RpyStep(t, undef) ==
  TakeRpyOffset(t, FirstChild(t.blob, "rpyOffset"),
                OffsetVector(t.blob, FirstChild(t.blob, "rpyOffset"), 1, undef))

OffsetsStep(t, jointTransform) ==
  PutOffsets(t, inverseTransformToParentFrame(t.pose, jointTransform))

\* faulty variant: the element is matched but its text is left as it was
RenamePluginElementKeepName(blob, ei, linkName, newLinkName) ==
  blob

\* the element at index ei now names the parent link
RenamePluginElement(blob, ei, linkName, newLinkName) ==
  ReplaceChildText(blob, ei, <<newLinkName>>)

PluginElementAt(blob, ei, linkName, newLinkName, reductionTransform, jointTransform, undef) ==
  IF ei # 0 /\ GetKeyValueAsString(blob.sub[ei]) = <<linkName>>
  THEN OffsetsStep(
         RpyStep(
           XyzStep([blob |-> RenamePluginElement(blob, ei, linkName, newLinkName),
                    pose |-> reductionTransform, log |-> <<>>],
                   undef),
           undef),
         jointTransform)
  ELSE NoLog(blob)

ReduceSDFExtensionPluginFrameReplace(blob, linkName, newLinkName, pluginName, elementName, reductionTransform, jointTransform, undef) ==
  IF blob.name = pluginName
  THEN PluginElementAt(blob, FirstChild(blob, elementName), linkName, newLinkName,
                       reductionTransform, jointTransform, undef)
  ELSE NoLog(blob)

\* std::string::find("/"): index of the first "/" token, 0 for npos
FindSlash(text) ==
  IF \E i \in 1..Len(text) : text[i] = "/"
  THEN CHOOSE i \in 1..Len(text) :
         text[i] = "/" /\ \A j \in 1..(i - 1) : text[j] # "/"
  ELSE 0

\* the <projector> child at index pi holds projectorName, whose first "/"
\* is at pos; substr(0, npos) is the whole text and substr(npos + 1) is
\* substr(0)
RenameProjector(blob, pi, projectorName, pos, linkName, newLinkName) ==
  [blob |-> IF (IF pos = 0 THEN projectorName ELSE SubSeq(projectorName, 1, pos - 1))
               = <<linkName>>
            THEN ReplaceChildText(blob, pi,
                   <<newLinkName, "/">> \o SubSeq(projectorName, pos + 1, Len(projectorName)))
            ELSE blob,
   log |-> IF pos = 0
           THEN <<[level |-> "err", what |-> "no slash in projector", about |-> ""]>>
           ELSE <<>>]

ProjectorAt(blob, pi, projectorName, linkName, newLinkName) ==
  RenameProjector(blob, pi, projectorName, FindSlash(projectorName),
                  linkName, newLinkName)

ProjectorChild(blob, pi, linkName, newLinkName) ==
  IF pi = 0 THEN NoLog(blob)
  ELSE ProjectorAt(blob, pi, GetKeyValueAsString(blob.sub[pi]), linkName, newLinkName)

ReduceSDFExtensionProjectorFrameReplace(blob, linkName, newLinkName) ==
  ProjectorChild(blob, FirstChild(blob, "projector"), linkName, newLinkName)

\* the test and replacement the gripper and joint rewriters apply to the
\* first child of a given tag, found at index i
ReplaceNameAt(blob, i, linkName, newLinkName) ==
  IF i # 0 /\ GetKeyValueAsString(blob.sub[i]) = <<linkName>>
  THEN ReplaceChildText(blob, i, <<newLinkName>>)
  ELSE blob

RECURSIVE ReplaceNamesIn(_, _, _, _)
ReplaceNamesIn(blob, childNames, linkName, newLinkName) ==
  IF childNames = <<>> THEN blob
  ELSE ReplaceNamesIn(
         ReplaceNameAt(blob, FirstChild(blob, Head(childNames)), linkName, newLinkName),
         Tail(childNames), linkName, newLinkName)

ReduceSDFExtensionGripperFrameReplace(blob, linkName, newLinkName) ==
  IF blob.name = "gripper"
  THEN ReplaceNamesIn(blob, <<"gripper_link", "palm_link">>, linkName, newLinkName)
  ELSE blob

ReduceSDFExtensionJointFrameReplace(blob, linkName, newLinkName) ==
  IF blob.name = "joint"
  THEN ReplaceNamesIn(blob, <<"parent", "child">>, linkName, newLinkName)
  ELSE blob

\* the two calls of ReduceSDFExtensionPluginFrameReplace, for the elements
\* of elementNames one after the other; r is [blob, log]
RECURSIVE PluginFrameReplaces(_, _, _, _, _, _, _)
PluginFrameReplaces(r, elementNames, linkName, newLinkName, reductionTransform, jointTransform, undef) ==
  IF elementNames = <<>> THEN r
  ELSE PluginFrameReplaces(
         After(r.log,
               ReduceSDFExtensionPluginFrameReplace(r.blob, linkName, newLinkName,
                 "plugin", Head(elementNames), reductionTransform, jointTransform,
                 undef)),
         Tail(elementNames), linkName, newLinkName, reductionTransform,
         jointTransform, undef)

ProjectorStep(r, linkName, newLinkName) ==
  After(r.log, ReduceSDFExtensionProjectorFrameReplace(r.blob, linkName, newLinkName))

GripperAndJointStep(r, linkName, newLinkName) ==
  [r EXCEPT !.blob =
     ReduceSDFExtensionJointFrameReplace(
       ReduceSDFExtensionGripperFrameReplace(@, linkName, newLinkName),
       linkName, newLinkName)]

\* the body of the loop of ReduceSDFExtensionFrameReplace, for one blob
FrameReplaceBlob(blob, ge, linkName, newLinkName, jointTransform, undef) ==
  GripperAndJointStep(
    ProjectorStep(
      PluginFrameReplaces(
        NoLog(ReduceSDFExtensionContactSensorFrameReplace(blob, linkName, newLinkName)),
        <<"bodyName", "frameName">>, linkName, newLinkName,
        ge.reductionTransform, jointTransform, undef),
      linkName, newLinkName),
    linkName, newLinkName)

\* the blobs and the logs of a sequence of rewritten blobs
BlobsOf(done) == [i \in 1..Len(done) |-> done[i].blob]
LogsOf(done) == Flatten([i \in 1..Len(done) |-> done[i].log])

Rewritten(ge, done) == [ge |-> [ge EXCEPT !.blobs = BlobsOf(done)], log |-> LogsOf(done)]

ReduceSDFExtensionFrameReplace(ge, linkName, newLinkName, jointTransform, undef) ==
  Rewritten(ge, [i \in 1..Len(ge.blobs) |->
                   FrameReplaceBlob(ge.blobs[i], ge, linkName, newLinkName,
                                    jointTransform, undef)])

----------------------------------------------------------------------------
(* The robot model (urdf::ModelInterface) built from a document.           *)
(* A document d lists its links in d.names, the root first; link i > 1 is  *)
(* the child of link d.parentOf[i] through a joint of type d.jtype[i] and   *)
(* origin d.jpose[i].  What the reduction never changes (child_links, the   *)
(* joint types and names) is read from the document; what it changes is    *)
(* held in the variable links.                                             *)

NoLink == ""          \* a null UrdfLinkPtr
NoInertial == [present |-> FALSE, mass |-> 0]
Inertial(m) == [present |-> TRUE, mass |-> m]

IndexOf(d, name) == CHOOSE i \in 1..Len(d.names) : d.names[i] = name

\* _link->child_links, in order
ChildrenOf(d, p) ==
  SelectSeq([i \in 1..Len(d.names) |-> i], LAMBDA i : i > 1 /\ d.parentOf[i] = p)

ChildLinks(d, name) == ChildrenOf(d, IndexOf(d, name))

NamesAt(d, c) == [k \in 1..Len(c) |-> d.names[c[k]]]

ChildNames(d, name) == NamesAt(d, ChildLinks(d, name))

\* _link->parent_joint is set
HasParentJoint(d, name) == IndexOf(d, name) > 1

JointType(d, name) == d.jtype[IndexOf(d, name)]
JointName(d, name) == "joint_" \o name

Item(kind, link) == [kind |-> kind, link |-> link]
ItemOrigin(kind) ==
  IF kind = "collision" THEN Pose(<<0, 1, 0>>, 0) ELSE Pose(<<1, 0, 0>>, 1)

\* the urdf::Link object of the i-th link as parseURDF builds it
BuildLink(d, i) ==
  [parent |-> IF i = 1 THEN NoLink ELSE d.names[d.parentOf[i]],
   parent_link_name |-> IF i = 1 THEN NoLink ELSE d.names[d.parentOf[i]],
   origin |-> IF i = 1 THEN IdentityPose ELSE d.jpose[i],
   inertial |-> d.inertial[i],
   collision_groups |-> (d.group :> <<Item("collision", d.names[i])>>),
   visual_groups |-> (d.group :> <<Item("visual", d.names[i])>>)]

BuildLinks(d) == [n \in Range(d.names) |-> BuildLink(d, IndexOf(d, n))]

BuildOrigins(d) ==
  [it \in {Item(k, n) : k \in {"collision", "visual"}, n \in Range(d.names)} |->
     ItemOrigin(it.kind)]

----------------------------------------------------------------------------
(* Order of std::map<std::string, ...> iteration *)

SortedTokens ==
  <<"", "aux", "base", "chassis", "default", "link1", "link2", "link3",
    "link4", "lump::", "world">>

TokenRank(t) == CHOOSE i \in 1..Len(SortedTokens) : SortedTokens[i] = t

RECURSIVE TextLess(_, _)
TextLess(a, b) ==
  IF a = <<>> THEN b # <<>>
  ELSE IF b = <<>> THEN FALSE
  ELSE IF Head(a) = Head(b) THEN TextLess(Tail(a), Tail(b))
  ELSE TokenRank(Head(a)) < TokenRank(Head(b))

Least(S) == CHOOSE a \in S : \A b \in S \ {a} : TextLess(a, b)

RECURSIVE SortedFrom(_, _)
SortedFrom(S, least) ==
  IF S = {least} THEN <<least>>
  ELSE <<least>> \o SortedFrom(S \ {least}, Least(S \ {least}))

SortedTexts(S) == IF S = {} THEN <<>> ELSE SortedFrom(S, Least(S))

FirstTokens(s) == [i \in 1..Len(s) |-> s[i][1]]

\* the keys of g_extensions in map order
SortedKeys(ext) == FirstTokens(SortedTexts({<<k>> : k \in DOMAIN ext}))

----------------------------------------------------------------------------
(* Lumping of visuals and collisions *)

LumpPrefix == "lump::"

\* _groupName.find("lump::") == 0
IsLumpGroup(groupName) == groupName # <<>> /\ Head(groupName) = LumpPrefix

\* faulty variant: every group, lumped before or not, is renamed after the link
LumpGroupNameAlwaysPrefixed(groupName, linkName) == <<LumpPrefix, linkName>>

\* the group of the parent that receives the items of a group of the link
LumpGroupName(groupName, linkName) ==
  IF IsLumpGroup(groupName) THEN groupName ELSE <<LumpPrefix, linkName>>

\* faulty variant: the item is pushed whether the group holds it or not
PushItemAgain(groups, linkName, groupName, item, have) ==
  [groups |-> (groupName :> Append(have, item)) @@ groups, log |-> <<>>]

\* ReduceCollisionToParent / ReduceVisualToParent on the groups of one kind
\* of the receiving link; have is the group's vector, empty for a new group
PushItem(groups, linkName, groupName, item, have) ==
  IF item \in Range(have)
  THEN [groups |-> (groupName :> have) @@ groups,
        log |-> <<[level |-> "warn", what |-> "already exists under group",
                   about |-> linkName]>>]
  ELSE [groups |-> (groupName :> Append(have, item)) @@ groups, log |-> <<>>]

ReduceItemToParent(groups, linkName, groupName, item) ==
  PushItem(groups, linkName, groupName, item,
           IF groupName \in DOMAIN groups THEN groups[groupName] ELSE <<>>)

\* the items of the groups of a link, names being the group names in map
\* order, with the group each one goes to, in the order the loops visit them
ItemsIn(groups, names, linkName) ==
  Flatten([g \in 1..Len(names) |->
     [k \in 1..Len(groups[names[g]]) |->
        [item |-> groups[names[g]][k], to |-> LumpGroupName(names[g], linkName)]]])

ItemsToLump(lk, field, linkName) ==
  ItemsIn(lk[linkName][field], SortedTexts(DOMAIN lk[linkName][field]), linkName)

\* the item's origin is transformed in place and the item is pushed to the
\* group of the parent
MoveItem(st, field, parent, item, moved, r) ==
  [st EXCEPT !.origin[item] = moved,
             !.links[parent][field] = r.groups,
             !.log = @ \o r.log]

LumpItem(st, field, linkName, parent, todo) ==
  MoveItem(st, field, parent, todo.item,
           TransformToParentFrame(st.origin[todo.item], st.links[linkName].origin),
           ReduceItemToParent(st.links[parent][field], parent, todo.to, todo.item))

RECURSIVE ReduceItemsToParent(_, _, _, _, _, _)
ReduceItemsToParent(st, field, linkName, todo, i, d) ==
  IF i > Len(todo) THEN st
  ELSE ReduceItemsToParent(
         LumpItem(st, field, linkName, st.links[linkName].parent, todo[i]),
         field, linkName, todo, i + 1, d)

ReduceVisualsToParent(st, linkName, d) ==
  ReduceItemsToParent(st, "visual_groups", linkName,
                      ItemsToLump(st.links, "visual_groups", linkName), 1, d)

ReduceCollisionsToParent(st, linkName, d) ==
  ReduceItemsToParent(st, "collision_groups", linkName,
                      ItemsToLump(st.links, "collision_groups", linkName), 1, d)

\* faulty variant: the mass of the link is added to the mass of its parent
ReduceInertialToParentSum(st, linkName, d) ==
  IF st.links[linkName].inertial.present /\ st.links[st.links[linkName].parent].inertial.present
  THEN [st EXCEPT !.links[st.links[linkName].parent].inertial.mass =
                    @ + st.links[linkName].inertial.mass]
  ELSE st

\* the body is disabled in the source: nothing is lumped
ReduceInertialToParent(st, linkName, d) == st

----------------------------------------------------------------------------
(* Re-homing of the joints of a lumped link *)

IsFixed(d, name) == HasParentJoint(d, name) /\ JointType(d, name) = "FIXED"

\* the condition of the while loop of ReduceJointsToParent
WalksAbove(lk, d, name) ==
  /\ HasParentJoint(d, name)
  /\ lk[name].parent # "world"
  /\ JointType(d, name) = "FIXED"

\* faulty variant: the walk stops at the parent of the lumped link
JointAnchorOneStep(lk, d, newParentLink, jointOrigin) ==
  IF WalksAbove(lk, d, newParentLink)
  THEN [link |-> lk[newParentLink].parent,
        origin |-> TransformToParentFrame(jointOrigin, lk[newParentLink].origin)]
  ELSE [link |-> newParentLink, origin |-> jointOrigin]

\* the while loop: the link the walk ends at and the joint origin it leaves
RECURSIVE JointAnchor(_, _, _, _)
JointAnchor(lk, d, newParentLink, jointOrigin) ==
  IF WalksAbove(lk, d, newParentLink)
  THEN JointAnchor(lk, d, lk[newParentLink].parent,
         TransformToParentFrame(jointOrigin, lk[newParentLink].origin))
  ELSE [link |-> newParentLink, origin |-> jointOrigin]

\* setParent and the new parent_link_name and joint origin of a child
Rehome(st, kid, a) ==
  [st EXCEPT !.links[kid].origin = a.origin,
             !.links[kid].parent = a.link,
             !.links[kid].parent_link_name = a.link]

\* one iteration of the loop over the children of the lumped link
ReduceJointOf(st, linkName, kid, d) ==
  IF JointType(d, kid) # "FIXED"
  THEN Rehome(st, kid, JointAnchor(st.links, d, linkName, st.links[kid].origin))
  ELSE st

RECURSIVE ReduceJointsFrom(_, _, _, _, _)
ReduceJointsFrom(st, linkName, kids, i, d) ==
  IF i > Len(kids) THEN st
  ELSE ReduceJointsFrom(ReduceJointOf(st, linkName, kids[i], d),
                        linkName, kids, i + 1, d)

ReduceJointsToParent(st, linkName, d) ==
  ReduceJointsFrom(st, linkName, ChildNames(d, linkName), 1, d)

----------------------------------------------------------------------------
(* Lumping of the extension records *)

\* faulty variant: the records are copied to the parent and stay under the link
MoveRecordsCopy(ext, linkName, newLinkName) ==
  LET keyed == WithKey(ext, newLinkName)
  IN  [keyed EXCEPT ![newLinkName] = @ \o ext[linkName]]

\* push_back of every record of the link to the parent's vector, then clear()
MoveRecords(ext, linkName, newLinkName) ==
  LET keyed == WithKey(ext, newLinkName)
  IN  [[keyed EXCEPT ![newLinkName] = @ \o ext[linkName]]
         EXCEPT ![linkName] = <<>>]

\* the body of the loop over the records of the lumped link: the reduction
\* transform is composed with the joint's and written to the blobs
ComposeTransform(ge, jointTransform) ==
  ReduceSDFExtensionsTransform(
    [ge EXCEPT !.reductionTransform = TransformToParentFrame(@, jointTransform)])

\* the first half of ReduceSDFExtensionToParent: the records under the
\* link's name get their transform composed and go to the parent's key
TransferExtensions(ext, linkName, newLinkName, jointTransform) ==
  IF linkName \in DOMAIN ext
  THEN MoveRecords(
         [ext EXCEPT ![linkName] =
            [i \in 1..Len(@) |-> ComposeTransform(@[i], jointTransform)]],
         linkName, newLinkName)
  ELSE ext

\* the table of the rewritten records and what was logged, in map order
Regrouped(done, keys) ==
  [ext |-> [k \in DOMAIN done |-> [i \in 1..Len(done[k]) |-> done[k][i].ge]],
   log |-> Flatten([j \in 1..Len(keys) |->
             Flatten([i \in 1..Len(done[keys[j]]) |-> done[keys[j]][i].log])])]

\* the second half: every record of every key has its blobs rewritten
ReplaceFramesEverywhere(ext, linkName, newLinkName, jointTransform, undef) ==
  Regrouped([k \in DOMAIN ext |->
               [i \in 1..Len(ext[k]) |->
                  ReduceSDFExtensionFrameReplace(ext[k][i], linkName,
                    newLinkName, jointTransform, undef)]],
            SortedKeys(ext))

WithExtensions(st, r) == [st EXCEPT !.ext = r.ext, !.log = @ \o r.log]

ExtensionsToParent(st, linkName, newLinkName, jointTransform, undef) ==
  WithExtensions(st,
    ReplaceFramesEverywhere(
      TransferExtensions(st.ext, linkName, newLinkName, jointTransform),
      linkName, newLinkName, jointTransform, undef))

ReduceSDFExtensionToParent(st, linkName, d, undef) ==
  ExtensionsToParent(st, linkName, st.links[linkName].parent,
                     st.links[linkName].origin, undef)

----------------------------------------------------------------------------
(* ReduceFixedJoints *)

\* the test that guards the lumping of a link
\* faulty variant: the test forgets the link named "world"
IsLumpedBelowWorld(lk, d, name) ==
  /\ lk[name].parent # NoLink
  /\ HasParentJoint(d, name)
  /\ JointType(d, name) = "FIXED"

IsLumped(lk, d, name) ==
  /\ lk[name].parent # NoLink
  /\ lk[name].parent # "world"
  /\ HasParentJoint(d, name)
  /\ JointType(d, name) = "FIXED"

\* the block that lumps a link into its parent
LumpIntoParent(st, linkName, d, undef) ==
  ReduceJointsToParent(
    ReduceCollisionsToParent(
      ReduceVisualsToParent(
        ReduceInertialToParent(
          ReduceSDFExtensionToParent(st, linkName, d, undef),
          linkName, d),
        linkName, d),
      linkName, d),
    linkName, d)

----------------------------------------------------------------------------
(* Emission: AddKeyValue and the InsertSDFExtension* functions.  An element *)
(* under construction travels with what was logged while building it, as   *)
(* a record [elem, log].                                                    *)

\* a new element without children, nothing logged
Fresh(name) == [elem |-> Elem(name, <<>>, <<>>), log |-> <<>>]

\* LinkEndChild of a built element to an element under construction
Attach(r, kid) == [elem |-> LinkEndChild(r.elem, kid.elem), log |-> r.log \o kid.log]

\* AddKeyValue, i being the index of the first child element of that key
AddKeyValueAt(e, key, value, i) ==
  [elem |-> LinkEndChild(IF i # 0 THEN RemoveChild(e, i) ELSE e,
                         Elem(key, value, <<>>)),
   log |-> IF i # 0 /\ GetKeyValueAsString(e.sub[i]) # value
           THEN <<[level |-> "warn", what |-> "multiple inconsistent", about |-> key]>>
           ELSE <<>>]

\* AddKeyValue: the element and what was logged
AddKeyValue(e, key, value) == AddKeyValueAt(e, key, value, FirstChild(e, key))

\* a run of AddKeyValue calls on one element, kvs a sequence of <<key, value>>
RECURSIVE AddKeyValues(_, _)
AddKeyValues(r, kvs) ==
  IF kvs = <<>> THEN r
  ELSE AddKeyValues(After(r.log, AddKeyValue(r.elem, Head(kvs)[1], Head(kvs)[2])),
                    Tail(kvs))

\* Values2str(1, &x)
Values2str(x) == NumText(x)

BoolText(b) == IF b THEN <<"true">> ELSE <<"false">>

\* the key/value pairs a record contributes when it has the numeric field set
WhenSet(ge, field, key) ==
  IF field \in ge.isSet THEN <<<<key, Values2str(ge.num[field])>>>> ELSE <<>>

RecordsAt(ext, keys) == Flatten([j \in 1..Len(keys) |-> ext[keys[j]]])

\* every record of the table, in map order
AllRecords(ext) == RecordsAt(ext, SortedKeys(ext))

RecordsUnder(ext, key) == IF key \in DOMAIN ext THEN ext[key] ELSE <<>>

\* the <surface> block of a record is linked to the collision element
AttachSurface(retro, contactOde, frictionOde) ==
  [elem |-> LinkEndChild(retro.elem,
              Elem("surface", <<>>,
                   <<Elem("contact", <<>>, <<contactOde.elem>>),
                     Elem("friction", <<>>, <<frictionOde.elem>>)>>)),
   log |-> retro.log \o frictionOde.log \o contactOde.log]

\* what InsertSDFExtensionCollision does for one matching record
InsertCollisionRecord(r, ge) ==
  AttachSurface(
    AddKeyValues(r, WhenSet(ge, "laserRetro", "laser_retro")),
    AddKeyValues(Fresh("ode"),
      WhenSet(ge, "kp", "kp") \o WhenSet(ge, "kd", "kd")
      \o WhenSet(ge, "maxVel", "max_vel") \o WhenSet(ge, "minDepth", "min_depth")),
    AddKeyValues(Fresh("ode"),
      WhenSet(ge, "mu1", "mu") \o WhenSet(ge, "mu2", "mu2")
      \o (IF ge.fdir1 # <<>> THEN <<<<"fdir1", ge.fdir1>>>> ELSE <<>>)))

RECURSIVE InsertCollisionRecords(_, _, _)
InsertCollisionRecords(r, recs, linkName) ==
  IF recs = <<>> THEN r
  ELSE InsertCollisionRecords(
         IF <<Head(recs).oldLinkName>> = linkName
         THEN InsertCollisionRecord(r, Head(recs)) ELSE r,
         Tail(recs), linkName)

InsertSDFExtensionCollision(r, ext, linkName) ==
  InsertCollisionRecords(r, AllRecords(ext), linkName)

RECURSIVE InsertVisualRecords(_, _, _)
InsertVisualRecords(r, recs, linkName) ==
  IF recs = <<>> THEN r
  ELSE InsertVisualRecords(
         IF <<Head(recs).oldLinkName>> = linkName /\ Head(recs).material # <<>>
         THEN AddKeyValues(r, <<<<"material", Head(recs).material>>>>) ELSE r,
         Tail(recs), linkName)

InsertSDFExtensionVisual(r, ext, linkName) ==
  InsertVisualRecords(r, AllRecords(ext), linkName)

\* clones of the blobs are linked at the end of the element
WithBlobs(r, blobs) == [r EXCEPT !.elem.sub = @ \o blobs]

\* what InsertSDFExtensionLink does for one record of the link's key
InsertLinkRecord(r, ge) ==
  WithBlobs(
    AddKeyValues(
      Attach(AddKeyValues(r, <<<<"gravity", BoolText(ge.gravity)>>>>),
             AddKeyValues(Fresh("velocity_decay"),
               WhenSet(ge, "dampingFactor", "linear")
               \o WhenSet(ge, "dampingFactor", "angular"))),
      <<<<"self_collide", BoolText(ge.selfCollide)>>>>),
    ge.blobs)

RECURSIVE InsertLinkRecords(_, _)
InsertLinkRecords(r, recs) ==
  IF recs = <<>> THEN r
  ELSE InsertLinkRecords(InsertLinkRecord(r, Head(recs)), Tail(recs))

InsertSDFExtensionLink(r, ext, linkName) ==
  InsertLinkRecords(r, RecordsUnder(ext, linkName))

\* the <physics> block of a record is linked to the joint element
AttachPhysics(r, ode, limit) ==
  [elem |-> LinkEndChild(r.elem,
              Elem("physics", <<>>, <<LinkEndChild(ode.elem, limit.elem)>>)),
   log |-> r.log \o limit.log \o ode.log]

\* what InsertSDFExtensionJoint does for one record of the joint's key
InsertJointRecord(r, ge) ==
  AttachPhysics(r,
    AddKeyValues(Fresh("ode"),
      <<<<"provide_feedback", BoolText(ge.provideFeedback)>>,
        <<"cfm_damping", BoolText(ge.cfmDamping)>>>>
      \o WhenSet(ge, "fudgeFactor", "fudge_factor")),
    AddKeyValues(Fresh("limit"),
      WhenSet(ge, "stopCfm", "erp") \o WhenSet(ge, "stopErp", "cfm")))

RECURSIVE InsertJointRecords(_, _)
InsertJointRecords(r, recs) ==
  IF recs = <<>> THEN r
  ELSE InsertJointRecords(InsertJointRecord(r, Head(recs)), Tail(recs))

InsertSDFExtensionJoint(r, ext, jointName) ==
  InsertJointRecords(r, RecordsUnder(ext, jointName))

\* InsertSDFExtensionRobot for one record without reference
InsertRobotRecord(r, ge) ==
  WithBlobs(AddKeyValues(r, <<<<"static", BoolText(ge.setStaticFlag)>>>>), ge.blobs)

RECURSIVE InsertRobotRecords(_, _)
InsertRobotRecords(r, recs) ==
  IF recs = <<>> THEN r
  ELSE InsertRobotRecords(InsertRobotRecord(r, Head(recs)), Tail(recs))

InsertSDFExtensionRobot(r, ext) == InsertRobotRecords(r, RecordsUnder(ext, ""))

----------------------------------------------------------------------------
(* Emission: CreateSDF.  The pose and geometry children of an element are  *)
(* written from the item's origin; the link's own pose and the joint axis, *)
(* which depend on sdf::Pose arithmetic outside these files, are left out. *)

\* the prefix CreateCollisions / CreateVisuals computes before the counter
PrefixBase(groupName, linkName) ==
  IF groupName = <<"default">> THEN <<linkName>>
  ELSE IF IsLumpGroup(groupName) THEN Tail(groupName)
  ELSE <<linkName, "_">> \o groupName

\* the prefix passed for the count-th item (counted from 0) of a group
ItemPrefix(groupName, linkName, count) ==
  IF count > 0 THEN PrefixBase(groupName, linkName) \o <<"_", ToString(count)>>
  ELSE PrefixBase(groupName, linkName)

\* the name CreateCollision ("_collision") / CreateVisual ("_vis") gives
ItemName(linkName, suffix, oldLinkName) ==
  IF oldLinkName = <<linkName>> THEN <<linkName, suffix>>
  ELSE <<linkName, suffix \o "_">> \o oldLinkName

\* a new <collision> or <visual> with its name and the pose of the item
NewItem(tag, name, pose) ==
  AddKeyValue(ElemWith(tag, <<<<"name", name>>>>, <<>>), "pose", PoseText(pose))

CreateCollision(r, lk, org, ext, linkName, item, oldLinkName) ==
  Attach(r, InsertSDFExtensionCollision(
              NewItem("collision", ItemName(linkName, "_collision", oldLinkName),
                      org[item]),
              ext, oldLinkName))

CreateVisual(r, lk, org, ext, linkName, item, oldLinkName) ==
  Attach(r, InsertSDFExtensionVisual(
              NewItem("visual", ItemName(linkName, "_vis", oldLinkName), org[item]),
              ext, oldLinkName))

\* the items of the groups of a link with their prefix, in loop order;
\* names are the group names in map order
PrefixedItems(groups, names, linkName) ==
  Flatten([g \in 1..Len(names) |->
     [k \in 1..Len(groups[names[g]]) |->
        [item |-> groups[names[g]][k],
         prefix |-> ItemPrefix(names[g], linkName, k - 1)]]])

ItemsToCreate(lk, field, linkName) ==
  PrefixedItems(lk[linkName][field], SortedTexts(DOMAIN lk[linkName][field]),
                linkName)

RECURSIVE CreateCollisionsFrom(_, _, _, _, _, _, _)
CreateCollisionsFrom(r, lk, org, ext, linkName, todo, i) ==
  IF i > Len(todo) THEN r
  ELSE CreateCollisionsFrom(
         CreateCollision(r, lk, org, ext, linkName, todo[i].item, todo[i].prefix),
         lk, org, ext, linkName, todo, i + 1)

CreateCollisions(r, lk, org, ext, linkName) ==
  CreateCollisionsFrom(r, lk, org, ext, linkName,
                       ItemsToCreate(lk, "collision_groups", linkName), 1)

RECURSIVE CreateVisualsFrom(_, _, _, _, _, _, _)
CreateVisualsFrom(r, lk, org, ext, linkName, todo, i) ==
  IF i > Len(todo) THEN r
  ELSE CreateVisualsFrom(
         CreateVisual(r, lk, org, ext, linkName, todo[i].item, todo[i].prefix),
         lk, org, ext, linkName, todo, i + 1)

CreateVisuals(r, lk, org, ext, linkName) ==
  CreateVisualsFrom(r, lk, org, ext, linkName,
                    ItemsToCreate(lk, "visual_groups", linkName), 1)

CreateInertial(r, lk, linkName) ==
  Attach(r, AddKeyValues(Fresh("inertial"),
              <<<<"mass", Values2str(lk[linkName].inertial.mass)>>>>))

\* the tag CreateJoint computes from the joint type
JointTag(d, linkName) ==
  IF ~HasParentJoint(d, linkName) THEN ""
  ELSE CASE JointType(d, linkName) \in {"CONTINUOUS", "REVOLUTE"} -> "revolute"
         [] JointType(d, linkName) = "PRISMATIC" -> "prismatic"
         [] JointType(d, linkName) = "FIXED" -> "fixed"
         [] OTHER -> ""

\* faulty variant: the stops are written as given
StopsOfAsGiven(lim, linkName) ==
  [kvs |-> <<<<"lower", Values2str(lim.lower)>>,
             <<"upper", Values2str(lim.upper)>>,
             <<"effort", Values2str(lim.effort)>>,
             <<"velocity", Values2str(lim.velocity)>>>>,
   log |-> <<>>]

\* the stops, the effort and the velocity of a joint that is not emitted as
\* a fake hinge; the stops are swapped when lower > upper
StopsOf(lim, linkName) ==
  [kvs |-> <<<<"lower", Values2str(IF lim.lower > lim.upper THEN lim.upper
                                   ELSE lim.lower)>>,
             <<"upper", Values2str(IF lim.lower > lim.upper THEN lim.lower
                                   ELSE lim.upper)>>,
             <<"effort", Values2str(lim.effort)>>,
             <<"velocity", Values2str(lim.velocity)>>>>,
   log |-> IF lim.lower > lim.upper
           THEN <<[level |-> "warn", what |-> "switching the two", about |-> linkName]>>
           ELSE <<>>]

\* the <limit> children of such a joint.  jtype is never "slider", continuous
\* joints get no limits; the axis direction and the damping copy numbers
\* the documents of the model do not vary.
JointLimits(d, linkName) ==
  IF /\ d.enforceLimits
     /\ d.limits[IndexOf(d, linkName)].present
     /\ JointType(d, linkName) # "CONTINUOUS"
  THEN StopsOf(d.limits[IndexOf(d, linkName)], linkName)
  ELSE [kvs |-> <<>>, log |-> <<>>]

\* the <axis> of a joint: zero stops and damping for a fake hinge
JointAxis(jtype, stops) ==
  [elem |-> Elem("axis", <<>>,
              <<AddKeyValues(Fresh("limit"),
                  IF jtype = "fixed"
                  THEN <<<<"lower", <<"0">>>>, <<"upper", <<"0">>>>>>
                  ELSE stops.kvs).elem,
                AddKeyValues(Fresh("dynamics"),
                  IF jtype = "fixed" THEN <<<<"damping", <<"0">>>>>> ELSE <<>>).elem>>),
   log |-> IF jtype = "fixed" THEN <<>> ELSE stops.log]

\* the <joint> element before the extensions are copied into it
JointElement(lk, d, linkName, jtype) ==
  Attach(AddKeyValues(
           [elem |-> ElemWith("joint",
                       <<<<"type", <<IF jtype = "fixed" THEN "revolute" ELSE jtype>>>>,
                         <<"name", <<JointName(d, linkName)>>>>>>, <<>>),
            log |-> <<>>],
           <<<<"child", <<linkName>>>>, <<"parent", <<lk[linkName].parent>>>>>>),
         JointAxis(jtype, JointLimits(d, linkName)))

\* one element added to the model, or none
One(r) == [elems |-> <<r.elem>>, log |-> r.log]
None == [elems |-> <<>>, log |-> <<>>]

\* CreateJoint once the tag is computed
JointOf(lk, ext, d, linkName, jtype) ==
  IF /\ lk[linkName].parent # NoLink
     /\ lk[linkName].parent # "world"
     /\ jtype = "fixed"
  THEN None
  ELSE IF jtype # ""
  THEN One(InsertSDFExtensionJoint(JointElement(lk, d, linkName, jtype), ext,
                                   JointName(d, linkName)))
  ELSE None

\* CreateJoint: the elements it adds to the model (none or one) and its log
CreateJoint(lk, ext, d, linkName) ==
  JointOf(lk, ext, d, linkName, JointTag(d, linkName))

\* the <link> element followed by what CreateJoint adds
LinkAndJoint(e, j) == [elems |-> <<e.elem>> \o j.elems, log |-> e.log \o j.log]

CreateLink(lk, org, ext, d, linkName) ==
  LinkAndJoint(
    InsertSDFExtensionLink(
      CreateVisuals(
        CreateCollisions(
          CreateInertial(
            [elem |-> ElemWith("link", <<<<"name", <<linkName>>>>>>, <<>>),
             log |-> <<>>],
            lk, linkName),
          lk, org, ext, linkName),
        lk, org, ext, linkName),
      ext, linkName),
    CreateJoint(lk, ext, d, linkName))

\* the link has no <inertial> block or a zero mass
HasNoInertia(lk, linkName) ==
  ~lk[linkName].inertial.present \/ lk[linkName].inertial.mass = 0

\* the test under which CreateSDF returns without modelling the link
NotModeled(lk, linkName) == linkName # "world" /\ HasNoInertia(lk, linkName)

Warning(what, linkName) == <<[level |-> "warn", what |-> what, about |-> linkName]>>

\* the warnings CreateSDF logs for a link it does not model
NoInertiaWarnings(d, linkName) ==
  (IF ChildLinks(d, linkName) # <<>>
   THEN Warning("children links ignored", linkName)
        \o Warning("children joints ignored", linkName)
   ELSE <<>>)
  \o (IF HasParentJoint(d, linkName)
      THEN Warning("parent joint ignored", linkName) ELSE <<>>)
  \o Warning("not modeled in sdf", linkName)

\* faulty variant: as if g_reduceFixedJoints were false
KeepsOwnLinkAlways(lk, d, linkName) == TRUE

\* the test under which CreateSDF gives a link its own <link> element
\* (g_reduceFixedJoints is true: the constructor sets it and nothing resets it)
KeepsOwnLink(lk, d, linkName) ==
  \/ lk[linkName].parent # NoLink /\ lk[linkName].parent = "world"
  \/ ~HasParentJoint(d, linkName)
  \/ JointType(d, linkName) # "FIXED"

\* r followed by the elements made and the messages logged
Joined(r, made) == [elems |-> r.elems \o made.elems, log |-> r.log \o made.log]

\* CreateSDF on one link, without the recursion into its children
VisitLink(r, lk, org, ext, d, linkName) ==
  IF NotModeled(lk, linkName)
  THEN [r EXCEPT !.log = @ \o NoInertiaWarnings(d, linkName)]
  ELSE IF KeepsOwnLink(lk, d, linkName)
  THEN Joined(r, CreateLink(lk, org, ext, d, linkName))
  ELSE r

\* faulty variant: the children of a link that is not modelled are still visited
LinksBelowKeepChildren(lk, d, linkName) ==
  ChildNames(d, linkName)

\* the links CreateSDF recurses into from a link
LinksBelow(lk, d, linkName) ==
  IF NotModeled(lk, linkName) THEN <<>> ELSE ChildNames(d, linkName)

\* CreateSDF on the links of todo one after the other; the recursion into
\* child_links is the depth-first order the worklist keeps
RECURSIVE CreateSDF(_, _, _, _, _, _)
CreateSDF(r, lk, org, ext, d, todo) ==
  IF todo = <<>> THEN r
  ELSE CreateSDF(VisitLink(r, lk, org, ext, d, Head(todo)), lk, org, ext, d,
                 LinksBelow(lk, d, Head(todo)) \o Tail(todo))

\* the <model> element around what CreateSDF made
ModelOf(d, body) ==
  [elem |-> ElemWith("model", <<<<"name", <<d.robot>>>>>>, body.elems),
   log |-> body.log]

\* faulty variant: the document is marked with the current version of SDF
DocumentOfCurrentVersion(robot) ==
  [doc |-> <<ElemWith("sdf", <<<<"version", <<"1.4">>>>>>, <<robot.elem>>)>>,
   log |-> robot.log]

\* the returned document: <sdf version="1.3"> around the model
DocumentOf(robot) ==
  [doc |-> <<ElemWith("sdf", <<<<"version", <<"1.3">>>>>>, <<robot.elem>>)>>,
   log |-> robot.log]

\* the links CreateSDF is called on by InitModelString
TopLinks(d) ==
  IF d.names[1] = "world" THEN ChildNames(d, d.names[1]) ELSE <<d.names[1]>>

\* the part of InitModelString after the reduction: the <sdf> document
EmitDocument(lk, org, ext, d) ==
  DocumentOf(
    InsertSDFExtensionRobot(
      ModelOf(d, CreateSDF(None, lk, org, ext, d, TopLinks(d))),
      ext))

\* a TiXmlDocument without any node
EmptyDocument == <<>>

----------------------------------------------------------------------------
(* The URDF documents given to the converter.  Each family varies one      *)
(* aspect of the input and keeps the others fixed.                         *)

LinkNames == <<"base", "link1", "link2", "link3", "link4">>
RootNames == {"world", "chassis"}

NamesFor(root, n) == [i \in 1..n |-> IF i = 1 THEN root ELSE LinkNames[i - 1]]

\* the trees over n links: every link but the first hangs under an earlier one
ParentMaps(n) ==
  {p \in [1..n -> 0..n] : p[1] = 0 /\ \A i \in 2..n : p[i] \in 1..(i - 1)}

JointTypesOver(n, types) ==
  {t \in [1..n -> types \cup {"NONE"}] : t[1] = "NONE" /\ \A i \in 2..n : t[i] \in types}

PoseTable ==
  <<Pose(<<1, 0, 0>>, 1), Pose(<<0, 2, 0>>, 0), Pose(<<0, 0, 1>>, 3),
    Pose(<<2, 1, 0>>, 2)>>

JointPoses(n, shift) ==
  [i \in 1..n |-> IF i = 1 THEN IdentityPose ELSE PoseTable[((i + shift) % 4) + 1]]

AllInertial(n) == [i \in 1..n |-> Inertial(1)]

\* every link has an inertia, or exactly one has no <inertial> or a zero mass
InertialChoices(n) ==
  {AllInertial(n)} \cup
  {[AllInertial(n) EXCEPT ![k] = bad] : k \in 1..n, bad \in {NoInertial, Inertial(0)}}

NoLimits == [present |-> FALSE, lower |-> 0, upper |-> 0, effort |-> 0, velocity |-> 0]
Limits(lo, hi) == [present |-> TRUE, lower |-> lo, upper |-> hi, effort |-> 4, velocity |-> 2]

Urdf(names, parentOf, jtype, jpose, inertial, group, limits, enforceLimits, sdf) ==
  [ok |-> TRUE, robot |-> "robot", names |-> names, parentOf |-> parentOf,
   jtype |-> jtype, jpose |-> jpose, inertial |-> inertial, group |-> group,
   limits |-> limits, enforceLimits |-> enforceLimits, sdf |-> sdf]

\* a text urdf::parseURDF rejects
Unparsable ==
  [ok |-> FALSE, robot |-> "", names |-> <<>>, parentOf |-> <<>>, jtype |-> <<>>,
   jpose |-> <<>>, inertial |-> <<>>, group |-> <<>>, limits |-> <<>>,
   enforceLimits |-> TRUE, sdf |-> <<>>]

Plain(root, n, p, t, shift, inertial, group, sdf) ==
  Urdf(NamesFor(root, n), p, t, JointPoses(n, shift), inertial, group,
       [i \in 1..n |-> NoLimits], TRUE, sdf)

\* robots of up to MaxLinks links without extensions: shape, joint types,
\* joint origins and one link without inertia vary
GeomDocs(most) ==
  UNION {{Plain(root, n, p, t, shift, inertial, <<"default">>, <<>>) :
            root \in RootNames, p \in ParentMaps(n),
            t \in JointTypesOver(n, {"FIXED", "REVOLUTE"}),
            shift \in {0, 1}, inertial \in InertialChoices(n)} :
         n \in 1..most}

\* robots whose visuals and collisions sit in a named group
GroupDocs(most) ==
  UNION {{Plain(root, n, p, t, 0, AllInertial(n), group, <<>>) :
            root \in RootNames, p \in ParentMaps(n),
            t \in JointTypesOver(n, {"FIXED", "REVOLUTE"}),
            group \in {<<"aux">>, <<LumpPrefix, "aux">>}} :
         n \in 2..most}

\* the j-th <sdf> element of a document, refering to ref
SdfElement(ref, children) == [reference |-> ref, children |-> children]

RecordChildren(j) ==
  IF j % 3 = 0 THEN <<Elem("material", <<"red">>, <<>>)>>
  ELSE <<Elem("mu1", NumText(j), <<>>)>>

\* robots with up to MaxExt <sdf> elements refering to their links below the
\* root, or to no link
RecordDocs(most, mostExt) ==
  UNION {{Plain(root, n, p, t, 0, AllInertial(n), <<"default">>,
                [j \in 1..Len(refs) |-> SdfElement(refs[j], RecordChildren(j))]) :
            root \in RootNames, p \in ParentMaps(n),
            t \in JointTypesOver(n, {"FIXED", "REVOLUTE"}),
            refs \in SeqsUpTo({LinkNames[i] : i \in 1..(n - 1)} \cup {""}, mostExt)
                       \ {<<>>}} :
         n \in 2..most}

\* the blobs (children of <sdf> the parser does not know) that name link x;
\* y is another link of the robot
BlobsNaming(x, y) ==
  {ElemWith("plugin", <<>>, <<Elem("bodyName", <<x>>, <<>>)>>),
   ElemWith("plugin", <<>>, <<Elem("frameName", <<x>>, <<>>),
                              Elem("xyzOffset", <<"1", "2", "3">>, <<>>)>>),
   ElemWith("plugin", <<>>, <<Elem("frameName", <<x>>, <<>>),
                              Elem("rpyOffset", <<"0", "zero", "0">>, <<>>)>>),
   ElemWith("plugin", <<>>, <<Elem("topicName", <<x>>, <<>>)>>),
   ElemWith("gripper", <<>>, <<Elem("gripper_link", <<x>>, <<>>),
                               Elem("palm_link", <<y>>, <<>>)>>),
   ElemWith("gripper", <<>>, <<Elem("gripper_link", <<y>>, <<>>),
                               Elem("gripper_link", <<x>>, <<>>),
                               Elem("palm_link", <<x>>, <<>>)>>),
   ElemWith("joint", <<>>, <<Elem("parent", <<y>>, <<>>),
                             Elem("child", <<x>>, <<>>)>>),
   ElemWith("joint", <<>>, <<Elem("parent", <<x>>, <<>>),
                             Elem("child", <<y>>, <<>>)>>),
   ElemWith("projector", <<>>, <<Elem("projector", <<x, "/", "proj">>, <<>>)>>),
   ElemWith("projector", <<>>, <<Elem("projector", <<x>>, <<>>)>>),
   ElemWith("sensor", <<>>,
            <<ElemWith("contact", <<>>,
                       <<Elem("collision", <<x, "_collision">>, <<>>)>>)>>),
   ElemWith("sensor", <<>>, <<Elem("pose", PoseText(IdentityPose), <<>>)>>)}

\* robots with one <sdf> element that carries one blob
BlobDocs(most) ==
  UNION {{Plain(root, n, p, t, 0, AllInertial(n), <<"default">>,
                <<SdfElement(ref, <<blob>>)>>) :
            root \in RootNames, p \in ParentMaps(n),
            t \in JointTypesOver(n, {"FIXED", "REVOLUTE"}),
            ref \in {LinkNames[1], LinkNames[n - 1]},
            blob \in BlobsNaming(LinkNames[n - 1], LinkNames[1])} :
         n \in 2..most}

\* two-link robots whose joint has stops, of every joint type
LimitDocs ==
  {Urdf(NamesFor(root, 2), <<0, 1>>, <<"NONE", jt>>, JointPoses(2, 0),
        AllInertial(2), <<"default">>, <<NoLimits, lim>>, enforce, <<>>) :
     root \in RootNames,
     jt \in {"FIXED", "REVOLUTE", "CONTINUOUS", "PRISMATIC", "FLOATING", "PLANAR"},
     lim \in {NoLimits, Limits(-1, 1), Limits(1, -1)},
     enforce \in BOOLEAN}

\* the children an <sdf> element of a repeated conversion may have
CallChildren ==
  {<<>>,
   <<Elem("mu1", NumText(1), <<>>)>>,
   <<Elem("mu1", <<"abc">>, <<>>)>>,
   <<Elem("static", <<"true">>, <<>>), Elem("kp", <<>>, <<>>)>>}

\* the documents a process converts one after the other
CallDocs ==
  {Unparsable} \cup
  {Plain(root, 2, <<0, 1>>, <<"NONE", jt>>, 0, AllInertial(2), <<"default">>, sdf) :
     root \in RootNames, jt \in {"FIXED", "REVOLUTE"},
     sdf \in {<<>>} \cup {<<SdfElement(ref, c)>> : ref \in {"base", ""},
                                                  c \in CallChildren}}

\* robots of one link that go by another name
NamedDocs ==
  {[Plain("chassis", 1, <<0>>, <<"NONE">>, 0, AllInertial(1), <<"default">>, <<>>)
      EXCEPT !.robot = name] : name \in {"arm", "gripper"}}

\* the children of an <sdf> element that set the stops of a joint
StopChildren ==
  {<<Elem("stopCfm", NumText(1), <<>>)>>,
   <<Elem("stopErp", NumText(2), <<>>)>>,
   <<Elem("stopCfm", NumText(1), <<>>), Elem("stopErp", NumText(2), <<>>)>>,
   <<Elem("fudgeFactor", NumText(3), <<>>)>>}

\* the children of an <sdf> element that set a flag of a link, or leave the
\* flags alone; self_collide is no tag ParseSDFExtension knows
FlagChildren ==
  {<<Elem("gravity", <<"false">>, <<>>)>>,
   <<Elem("selfCollide", <<"true">>, <<>>)>>,
   <<Elem("mu1", NumText(1), <<>>)>>,
   <<Elem("self_collide", <<"true">>, <<>>)>>}

SettingDoc(root, sdf) ==
  Plain(root, 2, <<0, 1>>, <<"NONE", "REVOLUTE">>, 0, AllInertial(2), <<"default">>, sdf)

\* two-link robots with one <sdf> element for the joint, or two for the link
SettingDocs ==
  {SettingDoc(root, sdf) :
     root \in RootNames,
     sdf \in {<<SdfElement(JointName(SettingDoc("chassis", <<>>), LinkNames[1]), c)>> :
               c \in StopChildren}
            \cup {<<SdfElement(LinkNames[1], c), SdfElement(LinkNames[1], e)>> :
                    c \in FlagChildren, e \in FlagChildren}}

\* the documents a fresh process may be given: robots of up to most links,
\* and of up to mostExtLinks links when they carry up to mostExt extensions
FirstDocs(most, mostExtLinks, mostExt) ==
  GeomDocs(most) \cup GroupDocs(mostExtLinks) \cup RecordDocs(mostExtLinks, mostExt)
    \cup BlobDocs(mostExtLinks) \cup LimitDocs \cup CallDocs \cup NamedDocs
    \cup SettingDocs

----------------------------------------------------------------------------
(* The converter as a state machine.  One conversion is a call of          *)
(* InitModelString; the walk of ReduceFixedJoints over the tree is taken   *)
(* one link at a time, the lumping of a link being one step.               *)

\* the values a read outside the filled part of a vector may yield
UndefValues == {0, 5}

Enter(linkName) == [op |-> "enter", link |-> linkName]
Lump(linkName) == [op |-> "lump", link |-> linkName]

\* activation record of ReduceFixedJoints on a link: which loop it is in
\* and the index of the next child that loop looks at
Frame(linkName, phase, i) == [link |-> linkName, phase |-> phase, i |-> i]

Top == stack[Len(stack)]

\* faulty variant: the tests of the two loops are exchanged
AttachedExchanged(d, kids, k, fixed) == (JointType(d, kids[k]) = "FIXED") # fixed

\* kid k is attached by a fixed joint (fixed = TRUE) or by another joint
Attached(d, kids, k, fixed) == (JointType(d, kids[k]) = "FIXED") = fixed

\* index of the first of kids from i on that is attached that way, or 0
FirstAttached(d, kids, i, fixed) ==
  IF \E k \in i..Len(kids) : Attached(d, kids, k, fixed)
  THEN CHOOSE k \in i..Len(kids) :
         /\ Attached(d, kids, k, fixed)
         /\ \A j \in i..(k - 1) : ~Attached(d, kids, j, fixed)
  ELSE 0

\* index of the first child from i on whose joint is (or is not) fixed, or 0
NextChild(d, linkName, i, fixed) ==
  FirstAttached(d, ChildNames(d, linkName), i, fixed)

Reduced == [links |-> links, origin |-> origin, ext |-> g_extensions, log |-> log]

\* the robot model, the extension table and the log become those of st
Becomes(st) ==
  /\ links' = st.links
  /\ origin' = st.origin
  /\ g_extensions' = st.ext
  /\ log' = st.log

\* no call was made yet on a function taken alone
NoCall == [fn |-> "", arg |-> <<>>, val |-> <<>>]

\* a freshly constructed sdf::Element: no value, no attribute, no child and
\* no description of a child
NewElement(name) ==
  [name |-> name, value |-> <<>>, attributes |-> <<>>, elements |-> <<>>,
   elementDescriptions |-> <<>>]

\* sdf::SensorPrivate as its default member initialisers leave it.  The type
\* is written as its entry of sensorTypeStrs, a pose as a number, a unique_ptr
\* as a sequence of at most one object, a sub-sensor object as a number
SensorPrivate ==
  [type |-> "none", name |-> "", topic |-> "", pose |-> 0, poseFrame |-> "",
   sdf |-> <<>>, magnetometer |-> <<>>, altimeter |-> <<>>, airPressure |-> <<>>,
   updateRate |-> 0]

\* two default-constructed sensors
NoSensors == <<SensorPrivate, SensorPrivate>>

\* the process before its first conversion
Idle ==
  /\ pc = "idle"
  /\ calls = 0
  /\ doc = Unparsable
  /\ links = <<>>
  /\ origin = <<>>
  /\ g_extensions = EmptyExtensions
  /\ allocated = 0
  /\ stack = <<>>
  /\ trace = <<>>
  /\ out = EmptyDocument
  /\ log = <<>>

Init ==
  /\ Idle
  /\ element = NewElement("root")
  /\ ret = NoCall
  /\ sensor = NoSensors

\* the caller is not inside a conversion and may start one
Callable == pc \in {"idle", "returned", "threw"} /\ calls < MaxCalls

\* faulty variant: the table is emptied when parseURDF fails
ParseFailedClearsTable ==
  /\ pc' = "returned"
  /\ out' = EmptyDocument
  /\ log' = <<[level |-> "err", what |-> "Unable to call parseURDF", about |-> ""]>>
  /\ links' = <<>>
  /\ origin' = <<>>
  /\ stack' = <<>>
  /\ trace' = <<>>
  /\ g_extensions' = EmptyExtensions
  /\ UNCHANGED allocated

\* parseURDF failed: an error is logged and an empty document returned
ParseFailed ==
  /\ pc' = "returned"
  /\ out' = EmptyDocument
  /\ log' = <<[level |-> "err", what |-> "Unable to call parseURDF", about |-> ""]>>
  /\ links' = <<>>
  /\ origin' = <<>>
  /\ stack' = <<>>
  /\ trace' = <<>>
  /\ UNCHANGED <<g_extensions, allocated>>

\* the robot model is built and ParseSDFExtension has run with result r:
\* either its exception leaves InitModelString, or ReduceFixedJoints is
\* called on the root link
Parsed(d, r) ==
  /\ g_extensions' = r.ext
  /\ allocated' = r.next
  /\ links' = BuildLinks(d)
  /\ origin' = BuildOrigins(d)
  /\ log' = <<>>
  /\ IF r.threw
     THEN /\ pc' = "threw"
          /\ stack' = <<>>
          /\ trace' = <<>>
          /\ UNCHANGED out
     ELSE /\ pc' = "reduce"
          /\ stack' = <<Frame(d.names[1], "fixed", 1)>>
          /\ trace' = <<Enter(d.names[1])>>
          /\ out' = EmptyDocument

\* InitModelString up to the call of ReduceFixedJoints on the root link
InitModelString(d) ==
  /\ Callable
  /\ calls' = calls + 1
  /\ doc' = d
  /\ UNCHANGED <<element, ret, sensor>>
  /\ IF d.ok THEN Parsed(d, ParseSDFExtension(g_extensions, d.sdf, allocated))
     ELSE ParseFailed

\* InitModelFile on a file that cannot be loaded
InitModelFile ==
  /\ Callable
  /\ calls' = calls + 1
  /\ pc' = "returned"
  /\ out' = EmptyDocument
  /\ log' = <<[level |-> "err", what |-> "Unable to load file", about |-> ""]>>
  /\ doc' = Unparsable
  /\ links' = <<>>
  /\ origin' = <<>>
  /\ stack' = <<>>
  /\ trace' = <<>>
  /\ UNCHANGED <<g_extensions, allocated, element, ret, sensor>>

\* ReduceFixedJoints is called on the child at index k of the top link
Recurse(k, kids) ==
  /\ k # 0
  /\ stack' = Append([stack EXCEPT ![Len(stack)].i = k + 1],
                     Frame(kids[k], "fixed", 1))
  /\ trace' = Append(trace, Enter(kids[k]))

\* first loop of ReduceFixedJoints: recursion into the next fixed child
RecurseFixedChild ==
  /\ pc = "reduce"
  /\ Top.phase = "fixed"
  /\ Recurse(NextChild(doc, Top.link, Top.i, TRUE), ChildNames(doc, Top.link))
  /\ UNCHANGED <<pc, calls, doc, links, origin, g_extensions, allocated, out, log,
                 element, ret, sensor>>

\* the first loop is over and the test that guards the lumping holds: the
\* walk moves on to the second loop, past the block that lumps the link
PassesLumping ==
  /\ pc = "reduce"
  /\ Top.phase = "fixed"
  /\ NextChild(doc, Top.link, Top.i, TRUE) = 0
  /\ IsLumped(links, doc, Top.link)
  /\ stack' = [stack EXCEPT ![Len(stack)] = Frame(Top.link, "free", 1)]
  /\ trace' = Append(trace, Lump(Top.link))

\* the first loop is over and the link is lumped into its parent
LumpLink(undef) ==
  /\ PassesLumping
  /\ Becomes(LumpIntoParent(Reduced, Top.link, doc, undef))
  /\ UNCHANGED <<pc, calls, doc, allocated, out, element, ret, sensor>>

\* the first loop is over and the link stays a link of its own
KeepLink ==
  /\ pc = "reduce"
  /\ Top.phase = "fixed"
  /\ NextChild(doc, Top.link, Top.i, TRUE) = 0
  /\ ~IsLumped(links, doc, Top.link)
  /\ stack' = [stack EXCEPT ![Len(stack)] = Frame(Top.link, "free", 1)]
  /\ UNCHANGED <<pc, calls, doc, links, origin, g_extensions, allocated, trace,
                 out, log, element, ret, sensor>>

\* second loop of ReduceFixedJoints: recursion into the next non-fixed child
RecurseFreeChild ==
  /\ pc = "reduce"
  /\ Top.phase = "free"
  /\ Recurse(NextChild(doc, Top.link, Top.i, FALSE), ChildNames(doc, Top.link))
  /\ UNCHANGED <<pc, calls, doc, links, origin, g_extensions, allocated, out, log,
                 element, ret, sensor>>

\* ReduceFixedJoints returns; from the root link it returns to InitModelString
ReturnFromLink ==
  /\ pc = "reduce"
  /\ Top.phase = "free"
  /\ NextChild(doc, Top.link, Top.i, FALSE) = 0
  /\ stack' = SubSeq(stack, 1, Len(stack) - 1)
  /\ pc' = IF Len(stack) = 1 THEN "create" ELSE "reduce"
  /\ UNCHANGED <<calls, doc, links, origin, g_extensions, allocated, trace,
                 out, log, element, ret, sensor>>

\* the document r.doc is returned, r.log having been logged on the way
Returns(r) ==
  /\ out' = r.doc
  /\ log' = log \o r.log
  /\ pc' = "returned"

\* the rest of InitModelString: CreateSDF, InsertSDFExtensionRobot, return
CreateDocument ==
  /\ pc = "create"
  /\ Returns(EmitDocument(links, origin, g_extensions, doc))
  /\ UNCHANGED <<calls, doc, links, origin, g_extensions, allocated, stack, trace,
                 element, ret, sensor>>

\* the documents the next call may be given: any document to a fresh
\* process, the documents of CallDocs to a process that converted before
NextDocs ==
  IF calls = 0 THEN FirstDocs(MaxLinks, MaxExtLinks, MaxExt)
  ELSE IF doc \in CallDocs THEN CallDocs ELSE {}

Next ==
  \/ \E d \in NextDocs : InitModelString(d)
  \/ InitModelFile
  \/ RecurseFixedChild
  \/ \E undef \in UndefValues : LumpLink(undef)
  \/ KeepLink
  \/ RecurseFreeChild
  \/ ReturnFromLink
  \/ CreateDocument

Spec == Init /\ [][Next]_vars

----------------------------------------------------------------------------
(* sdf::Element and sdf::Param (SDF.hh).  Element::Get<T> and              *)
(* Element::Set<T> are the templates the header defines; they are taken    *)
(* with T = int, so T() is 0.  The functions they call and the functions   *)
(* that build an element are only declared in the header; they follow the  *)
(* description of the component.  A ParamPtr or ElementPtr is a sequence   *)
(* of at most one value, <<>> being the null pointer.  Copies are values,  *)
(* so a clone is the element itself; the back-reference of an element to   *)
(* its parent is not kept, nothing here reads it.                          *)

MaxElements == 2      \* instance children an element is given

\* the names of the attributes and of the children a caller uses, the
\* default texts a schema registers and the values a caller sets
ElementNames == {"x", "y"}
AttributeKeys == {"x"}
AttributeDefault == <<"1">>
ValueDefault == <<"2">>
DescriptionDefault == <<"5">>
SetValues == {7}

First(s) == IF s = <<>> THEN <<>> ELSE <<Head(s)>>

\* a Param as AddAttribute / AddValue make it: its text is the default text
NewParam(key, default) ==
  [key |-> key, defaultValue |-> default, value |-> default, set |-> FALSE]

\* Param::Get<int>(result): the text decoded, or result left as it was when
\* the text is no int
ParamGet(p, result) == IF IsNumeral(p.value) THEN NumeralValue(p.value) ELSE result

\* Param::Set<int>(v): v encoded
ParamSet(p, v) == [p EXCEPT !.value = NumText(v), !.set = TRUE]

Named(es, name) == SelectSeq(es, LAMBDA c : c.name = name)

\* index of the first of es with that name
FirstNamed(es, name) ==
  CHOOSE i \in 1..Len(es) : es[i].name = name /\ \A j \in 1..(i - 1) : es[j].name # name

GetAttribute(e, key) == First(SelectSeq(e.attributes, LAMBDA p : p.key = key))

HasElement(e, name) == Named(e.elements, name) # <<>>

GetElementImpl(e, name) == First(Named(e.elements, name))

HasElementDescription(e, name) == Named(e.elementDescriptions, name) # <<>>

GetElementDescription(e, name) == First(Named(e.elementDescriptions, name))

\* Get<int>() with the key left empty: the value of the element decoded,
\* T() when it has none
OwnValue(e) == IF e.value # <<>> THEN ParamGet(e.value[1], 0) ELSE 0

Found(val) == [val |-> val, log |-> <<>>]

\* faulty variant: an instance child is looked up before the attribute
GetChildFirst(e, key) ==
  IF key = "" THEN Found(OwnValue(e))
  ELSE IF HasElement(e, key) THEN Found(OwnValue(GetElementImpl(e, key)[1]))
  ELSE IF GetAttribute(e, key) # <<>> THEN Found(ParamGet(GetAttribute(e, key)[1], 0))
  ELSE IF HasElementDescription(e, key)
       THEN Found(OwnValue(GetElementDescription(e, key)[1]))
  ELSE [val |-> 0,
        log |-> <<[level |-> "err", what |-> "Unable to find value for key",
                   about |-> key]>>]

\* faulty variant: the description is looked up before an instance child
GetDescriptionFirst(e, key) ==
  IF key = "" THEN Found(OwnValue(e))
  ELSE IF GetAttribute(e, key) # <<>> THEN Found(ParamGet(GetAttribute(e, key)[1], 0))
  ELSE IF HasElementDescription(e, key)
       THEN Found(OwnValue(GetElementDescription(e, key)[1]))
  ELSE IF HasElement(e, key) THEN Found(OwnValue(GetElementImpl(e, key)[1]))
  ELSE [val |-> 0,
        log |-> <<[level |-> "err", what |-> "Unable to find value for key",
                   about |-> key]>>]

\* Element::Get<int>(key): what it returns and what it logs
Get(e, key) ==
  IF key = "" THEN Found(OwnValue(e))
  ELSE IF GetAttribute(e, key) # <<>> THEN Found(ParamGet(GetAttribute(e, key)[1], 0))
  ELSE IF HasElement(e, key) THEN Found(OwnValue(GetElementImpl(e, key)[1]))
  ELSE IF HasElementDescription(e, key)
       THEN Found(OwnValue(GetElementDescription(e, key)[1]))
  ELSE [val |-> 0,
        log |-> <<[level |-> "err", what |-> "Unable to find value for key",
                   about |-> key]>>]

\* faulty variant: an element without a value is given one
SetAlways(e, v) ==
  [elem |-> [e EXCEPT !.value = <<ParamSet(NewParam("", NumText(v)), v)>>],
   val |-> TRUE]

\* Element::Set<int>(v): the element afterwards and what is returned
Set(e, v) ==
  IF e.value # <<>>
  THEN [elem |-> [e EXCEPT !.value = <<ParamSet(e.value[1], v)>>], val |-> TRUE]
  ELSE [elem |-> e, val |-> FALSE]

\* the element afterwards, the index of the child returned (0 for a null
\* pointer) and what was logged
Changed(e, at, said) == [elem |-> e, at |-> at, log |-> said]

AddAttribute(e, key, default) ==
  IF GetAttribute(e, key) # <<>>
  THEN Changed(e, 0, <<[level |-> "err", what |-> "attribute already exists",
                        about |-> key]>>)
  ELSE Changed([e EXCEPT !.attributes = Append(@, NewParam(key, default))], 0, <<>>)

AddValue(e, default) == [e EXCEPT !.value = <<NewParam("", default)>>]

AddElementDescription(e, d) == [e EXCEPT !.elementDescriptions = Append(@, d)]

\* faulty variant: without a description an empty element is made up
AddElementUnchecked(e, name) ==
  Changed([e EXCEPT !.elements =
             Append(@, IF HasElementDescription(e, name)
                       THEN GetElementDescription(e, name)[1]
                       ELSE NewElement(name))],
          Len(e.elements) + 1, <<>>)

\* AddElement(name): the description of that name is cloned and appended
AddElement(e, name) ==
  IF HasElementDescription(e, name)
  THEN Changed([e EXCEPT !.elements = Append(@, GetElementDescription(e, name)[1])],
               Len(e.elements) + 1, <<>>)
  ELSE Changed(e, 0, <<[level |-> "err", what |-> "Missing element description",
                        about |-> name]>>)

\* GetElement(name), the overload that is not const: the first child of
\* that name, made by AddElement when there is none
GetElement(e, name) ==
  IF HasElement(e, name) THEN Changed(e, FirstNamed(e.elements, name), <<>>)
  ELSE AddElement(e, name)

InsertElement(e, c) == [e EXCEPT !.elements = Append(@, c)]

\* the description of a child a schema registers, with a value or without
Description(name, valued) ==
  IF valued THEN AddValue(NewElement(name), DescriptionDefault) ELSE NewElement(name)

Descriptions == {Description(n, b) : n \in ElementNames, b \in BOOLEAN}

\* the elements a caller constructs and hands to InsertElement
Constructed == {NewElement(n) : n \in ElementNames}

----------------------------------------------------------------------------
(* A caller of sdf::Element: it builds one element and reads it, one call  *)
(* at a time.                                                              *)

converter == <<pc, calls, doc, links, origin, g_extensions, allocated, stack,
               trace, out>>

\* the call fn(arg) was made, returned val and logged said
Called(fn, arg, val, said) ==
  /\ ret' = [fn |-> fn, arg |-> arg, val |-> val]
  /\ log' = said
  /\ UNCHANGED <<converter, sensor>>

\* an ElementPtr as the caller sees it: the name of the element, <<>> when null
Pointer(r) == IF r.at = 0 THEN <<>> ELSE <<r.elem.elements[r.at].name>>

CallAddAttribute(key) ==
  /\ element' = AddAttribute(element, key, AttributeDefault).elem
  /\ Called("AddAttribute", <<key>>, <<>>, AddAttribute(element, key, AttributeDefault).log)

CallAddValue ==
  /\ element' = AddValue(element, ValueDefault)
  /\ Called("AddValue", ValueDefault, <<>>, <<>>)

CallAddElementDescription(d) ==
  /\ ~HasElementDescription(element, d.name)
  /\ element' = AddElementDescription(element, d)
  /\ Called("AddElementDescription", <<d.name>>, <<>>, <<>>)

CallAddElement(name) ==
  /\ Len(element.elements) < MaxElements
  /\ element' = AddElement(element, name).elem
  /\ Called("AddElement", <<name>>, Pointer(AddElement(element, name)),
            AddElement(element, name).log)

CallInsertElement(c) ==
  /\ Len(element.elements) < MaxElements
  /\ element' = InsertElement(element, c)
  /\ Called("InsertElement", <<c.name>>, <<>>, <<>>)

\* the child a call of GetElement returned
Target(got) == got.elem.elements[got.at]

\* GetElement(name)->Set(v), by a caller that knows the element can be had
SetThrough(got, v) ==
  [got.elem EXCEPT !.elements[got.at] = Set(Target(got), v).elem]

CallGetElementSet(name, v) ==
  /\ HasElement(element, name) \/
       (HasElementDescription(element, name) /\ Len(element.elements) < MaxElements)
  /\ element' = SetThrough(GetElement(element, name), v)
  /\ Called("GetElement->Set", <<name>> \o NumText(v),
            BoolText(Set(Target(GetElement(element, name)), v).val),
            GetElement(element, name).log)

CallSet(v) ==
  /\ element' = Set(element, v).elem
  /\ Called("Set", NumText(v), BoolText(Set(element, v).val), <<>>)

CallGet(key) ==
  /\ UNCHANGED element
  /\ Called("Get", <<key>>, NumText(Get(element, key).val), Get(element, key).log)

CallHasElement(name) ==
  /\ UNCHANGED element
  /\ Called("HasElement", <<name>>, BoolText(HasElement(element, name)), <<>>)

ElementNext ==
  \/ \E key \in AttributeKeys : CallAddAttribute(key)
  \/ CallAddValue
  \/ \E d \in Descriptions : CallAddElementDescription(d)
  \/ \E name \in ElementNames : CallAddElement(name)
  \/ \E c \in Constructed : CallInsertElement(c)
  \/ \E name \in ElementNames, v \in SetValues : CallGetElementSet(name, v)
  \/ \E v \in SetValues : CallSet(v)
  \/ \E key \in ElementNames \cup {""} : CallGet(key)
  \/ \E name \in ElementNames : CallHasElement(name)

ElementSpec == Init /\ [][ElementNext]_vars

----------------------------------------------------------------------------
(* ReduceCollisionToParent and ReduceVisualToParent called alone, on the   *)
(* link "chassis" of a robot of two links, with any group and any          *)
(* collision or visual of the robot, any number of times.                  *)

TwoLinks ==
  Plain("chassis", 2, <<0, 1>>, <<"NONE", "FIXED">>, 0, AllInertial(2),
        <<"default">>, <<>>)

GroupNames == {<<"default">>, <<LumpPrefix, "base">>, <<LumpPrefix, "link1">>}

ReduceToParentInit ==
  /\ pc = "idle"
  /\ calls = 0
  /\ doc = TwoLinks
  /\ links = BuildLinks(TwoLinks)
  /\ origin = BuildOrigins(TwoLinks)
  /\ g_extensions = EmptyExtensions
  /\ allocated = 0
  /\ stack = <<>>
  /\ trace = <<>>
  /\ out = EmptyDocument
  /\ log = <<>>
  /\ element = NewElement("root")
  /\ ret = NoCall
  /\ sensor = NoSensors

\* the call fn(link, groupName, item), r being what ReduceItemToParent gives
Reduces(fn, field, linkName, groupName, item, r) ==
  /\ links' = [links EXCEPT ![linkName][field] = r.groups]
  /\ log' = r.log
  /\ ret' = [fn |-> fn, arg |-> <<item.link>> \o groupName, val |-> <<>>]
  /\ UNCHANGED <<pc, calls, doc, origin, g_extensions, allocated, stack, trace,
                 out, element, sensor>>

CallReduceCollisionToParent(groupName, item) ==
  Reduces("ReduceCollisionToParent", "collision_groups", "chassis", groupName, item,
          ReduceItemToParent(links["chassis"].collision_groups, "chassis",
                             groupName, item))

CallReduceVisualToParent(groupName, item) ==
  Reduces("ReduceVisualToParent", "visual_groups", "chassis", groupName, item,
          ReduceItemToParent(links["chassis"].visual_groups, "chassis",
                             groupName, item))

ReduceToParentNext ==
  \/ \E g \in GroupNames, n \in Range(TwoLinks.names) :
       CallReduceCollisionToParent(g, Item("collision", n))
  \/ \E g \in GroupNames, n \in Range(TwoLinks.names) :
       CallReduceVisualToParent(g, Item("visual", n))

ReduceToParentSpec == ReduceToParentInit /\ [][ReduceToParentNext]_vars

----------------------------------------------------------------------------
(* ParseVector3 called alone, on a null key or on a node of any text.      *)

MaxPieces == 4        \* pieces boost::split cuts the text of a key into

Pieces == {"1", "abc", ""}
Scales == {1, 3}

\* the keys: a null pointer, or a node whose Value() splits into those pieces
KeyNodes == {<<>>} \cup {<<t>> : t \in SeqsUpTo(Pieces, MaxPieces) \ {<<>>}}

ParseVector3Init ==
  /\ Idle
  /\ element = NewElement("root")
  /\ ret = NoCall
  /\ sensor = NoSensors

CallParseVector3(key, scale, undef) ==
  /\ ret' = [fn |-> "ParseVector3", arg |-> key \o <<NumText(scale)>>,
             val |-> ParseVector3Node(key, scale, undef).vec]
  /\ log' = ParseVector3Node(key, scale, undef).log
  /\ UNCHANGED <<converter, element, sensor>>

ParseVector3Next ==
  \E key \in KeyNodes, scale \in Scales, undef \in UndefValues :
    CallParseVector3(key, scale, undef)

ParseVector3Spec == ParseVector3Init /\ [][ParseVector3Next]_vars

----------------------------------------------------------------------------
(* sdf::Sensor (Sensor.cc).  A caller holds two sensors: sensor[1], which  *)
(* it loads and sets, and sensor[2], which it makes from the first by the  *)
(* copy constructor or by copy assignment; it compares them.  An element   *)
(* given to Load is written as what Load and the loaders it calls read     *)
(* from it.                                                                *)

MaxSensorCalls == 3   \* calls a caller makes on its sensors

sensorTypeStrs ==
  <<"none", "altimeter", "camera", "contact", "depth_camera", "force_torque",
    "gps", "gpu_lidar", "imu", "logical_camera", "magnetometer", "multicamera",
    "lidar", "rfid", "rfidtag", "sonar", "wireless_receiver",
    "wireless_transmitter", "air_pressure">>

\* SensorPrivate(const SensorPrivate &): the members of the initialiser list
\* and the three sub-sensors; sdf and updateRate keep their defaults
SensorPrivateCopy(from) ==
  [SensorPrivate EXCEPT !.type = from.type,
                        !.name = from.name,
                        !.topic = from.topic,
                        !.pose = from.pose,
                        !.poseFrame = from.poseFrame,
                        !.magnetometer = from.magnetometer,
                        !.altimeter = from.altimeter,
                        !.airPressure = from.airPressure]

\* Sensor(const Sensor &)
SensorCopy(from) == SensorPrivateCopy(from)

\* Sensor::operator=(const Sensor &): dataPtr is never null here, a new
\* SensorPrivate is constructed in the place of the old one
SensorAssign(to, from) == SensorPrivateCopy(from)

\* what dereferencing a null unique_ptr may come to
NullDereference == {"true", "false", "crashed"}

\* *p == *q for two sub-sensor pointers
SubSensorsEqual(p, q) ==
  IF p = <<>> \/ q = <<>> THEN NullDereference
  ELSE {IF p[1] = q[1] THEN "true" ELSE "false"}

\* the first test of operator==
EasyParametersDiffer(a, b) ==
  \/ a.name # b.name
  \/ a.type # b.type
  \/ a.topic # b.topic
  \/ a.pose # b.pose
  \/ a.poseFrame # b.poseFrame
  \/ a.updateRate # b.updateRate

\* Sensor::operator==: the outcomes the call may have
SensorEquals(a, b) ==
  IF EasyParametersDiffer(a, b) THEN {"false"}
  ELSE CASE a.type = "altimeter" -> SubSensorsEqual(a.altimeter, b.altimeter)
         [] a.type = "magnetometer" -> SubSensorsEqual(a.magnetometer, b.magnetometer)
         [] a.type = "air_pressure" -> SubSensorsEqual(a.airPressure, b.airPressure)
         [] OTHER -> {"true"}

Negated(outcome) ==
  CASE outcome = "true" -> "false" [] outcome = "false" -> "true" [] OTHER -> outcome

\* Sensor::operator!=
SensorNotEquals(a, b) == {Negated(o) : o \in SensorEquals(a, b)}

\* an sdf::Error, written as its code
Error(code) == <<code>>

Loaded(s, errors) == [sensor |-> s, errors |-> errors]

\* the branches of Load that only set the type
PlainTypes ==
  {"camera", "contact", "depth_camera", "force_torque", "gps", "gpu_lidar", "imu",
   "logical_camera", "multicamera", "lidar", "rfid", "rfidtag", "sonar",
   "wireless_receiver", "wireless_transmitter"}

\* faulty variant: the type string "none" is taken for SensorType::NONE
TypeOfNoneKnown(type) ==
  CASE type = "depth" -> "depth_camera"
    [] type = "gpu_ray" -> "gpu_lidar"
    [] type = "ray" -> "lidar"
    [] type \in PlainTypes \cup {"air_pressure", "altimeter", "magnetometer", "none"} -> type
    [] OTHER -> ""

\* the type a type string of an element stands for in Load, "" for none
TypeOf(type) ==
  CASE type = "depth" -> "depth_camera"
    [] type = "gpu_ray" -> "gpu_lidar"
    [] type = "ray" -> "lidar"
    [] type \in PlainTypes \cup {"air_pressure", "altimeter", "magnetometer"} -> type
    [] OTHER -> ""

\* loadPose, whose result Load ignores
LoadPose(s, e) == [s EXCEPT !.pose = e.pose, !.poseFrame = e.frame]

\* the chain of tests on the type string, and the pose after it: a
\* sub-sensor is made anew and loaded from its child element, the errors of
\* that load are appended
LoadType(s, e, type) ==
  IF type = "air_pressure"
  THEN Loaded(LoadPose([s EXCEPT !.type = type, !.airPressure = <<e.loaded>>], e),
              e.errors)
  ELSE IF type = "altimeter"
  THEN Loaded(LoadPose([s EXCEPT !.type = type, !.altimeter = <<e.loaded>>], e),
              e.errors)
  ELSE IF type = "magnetometer"
  THEN Loaded(LoadPose([s EXCEPT !.type = type, !.magnetometer = <<e.loaded>>], e),
              e.errors)
  ELSE IF TypeOf(type) # ""
  THEN Loaded(LoadPose([s EXCEPT !.type = TypeOf(type)], e), <<>>)
  ELSE Loaded(s, Error("ATTRIBUTE_INVALID"))

\* the part of Load between the name and the type: update_rate, when the
\* element has none, stays as it is; the topic "__default__" is no topic
LoadRateAndTopic(s, e) ==
  [s EXCEPT !.updateRate = IF e.update_rate # <<>> THEN e.update_rate[1] ELSE @,
            !.topic = IF e.topic = "__default__" THEN "" ELSE e.topic]

\* Load on an element that is a <sensor>; loadName writes the name it read
LoadSensor(s, e) ==
  IF e.name = <<>>
  THEN Loaded([s EXCEPT !.name = ""], Error("ATTRIBUTE_MISSING"))
  ELSE LoadType(LoadRateAndTopic([s EXCEPT !.name = e.name[1]], e), e, e.type)

\* Sensor::Load; sdf is the ElementPtr, <<>> when null
Load(s, sdf) ==
  IF sdf = <<>>
  THEN Loaded([s EXCEPT !.sdf = sdf], Error("ELEMENT_MISSING"))
  ELSE IF sdf[1].tag # "sensor"
  THEN Loaded([s EXCEPT !.sdf = sdf], Error("ELEMENT_INCORRECT_TYPE"))
  ELSE LoadSensor([s EXCEPT !.sdf = sdf], sdf[1])

\* SetType(const std::string &): the index of the string in sensorTypeStrs
\* is cast to the type, which is written as that entry
SetTypeStr(s, typeStr) ==
  IF \E i \in 1..Len(sensorTypeStrs) : sensorTypeStrs[i] = typeStr
  THEN [sensor |-> [s EXCEPT !.type = typeStr], val |-> TRUE]
  ELSE [sensor |-> s, val |-> FALSE]

\* a <sensor> element as Load reads it
SensorElement(name, type, rate, errors) ==
  [tag |-> "sensor", name |-> name, type |-> type, update_rate |-> rate,
   topic |-> "__default__", errors |-> errors, loaded |-> 1, pose |-> 2,
   frame |-> "world"]

\* the type strings elements are given with
TypeStrings ==
  {"", "none", "sensor", "air_pressure", "altimeter", "magnetometer", "camera",
   "depth", "depth_camera", "gpu_ray", "gpu_lidar", "ray", "lidar"}

\* the elements Load is called on
SensorElements ==
  {<<>>, <<[SensorElement(<<"s">>, "camera", <<>>, <<>>) EXCEPT !.tag = "link"]>>,
   <<SensorElement(<<>>, "camera", <<>>, <<>>)>>}
    \cup {<<SensorElement(<<"s">>, type, <<>>, <<>>)>> : type \in TypeStrings}
    \cup {<<SensorElement(<<"s">>, type, <<10>>, Error("ELEMENT_MISSING"))>> :
            type \in {"altimeter", "magnetometer", "air_pressure", "camera", "none"}}

\* the call fn(arg) was made on the sensors and returned val
SensorCalled(fn, arg, val) ==
  /\ calls < MaxSensorCalls
  /\ calls' = calls + 1
  /\ ret' = [fn |-> fn, arg |-> arg, val |-> val]
  /\ UNCHANGED <<pc, doc, links, origin, g_extensions, allocated, stack, trace,
                 out, log, element>>

CallLoad(sdf) ==
  /\ SensorCalled("Load", <<>>, Load(sensor[1], sdf).errors)
  /\ sensor' = [sensor EXCEPT ![1] = Load(sensor[1], sdf).sensor]

CallSetType(type) ==
  /\ SensorCalled("SetType", <<type>>, <<>>)
  /\ sensor' = [sensor EXCEPT ![1].type = type]

CallSetTypeStr(typeStr) ==
  /\ SensorCalled("SetType", <<typeStr>>, BoolText(SetTypeStr(sensor[1], typeStr).val))
  /\ sensor' = [sensor EXCEPT ![1] = SetTypeStr(sensor[1], typeStr).sensor]

CallSetName(name) ==
  /\ SensorCalled("SetName", <<name>>, <<>>)
  /\ sensor' = [sensor EXCEPT ![1].name = name]

CallSetUpdateRate(hz) ==
  /\ SensorCalled("SetUpdateRate", NumText(hz), <<>>)
  /\ sensor' = [sensor EXCEPT ![1].updateRate = hz]

CallSetMagnetometerSensor(mag) ==
  /\ SensorCalled("SetMagnetometerSensor", NumText(mag), <<>>)
  /\ sensor' = [sensor EXCEPT ![1].magnetometer = <<mag>>]

CallSetAltimeterSensor(alt) ==
  /\ SensorCalled("SetAltimeterSensor", NumText(alt), <<>>)
  /\ sensor' = [sensor EXCEPT ![1].altimeter = <<alt>>]

CallSetAirPressureSensor(air) ==
  /\ SensorCalled("SetAirPressureSensor", NumText(air), <<>>)
  /\ sensor' = [sensor EXCEPT ![1].airPressure = <<air>>]

CallCopyConstructor ==
  /\ SensorCalled("Sensor", <<>>, <<>>)
  /\ sensor' = [sensor EXCEPT ![2] = SensorCopy(sensor[1])]

CallCopyAssignment ==
  /\ SensorCalled("operator=", <<>>, <<>>)
  /\ sensor' = [sensor EXCEPT ![2] = SensorAssign(sensor[2], sensor[1])]

\* sensor[i] == sensor[j], with one of the outcomes the call may have
CallEquals(i, j, outcome) ==
  /\ outcome \in SensorEquals(sensor[i], sensor[j])
  /\ SensorCalled("operator==", <<ToString(i), ToString(j)>>, <<outcome>>)
  /\ UNCHANGED sensor

CallNotEquals(i, j, outcome) ==
  /\ outcome \in SensorNotEquals(sensor[i], sensor[j])
  /\ SensorCalled("operator!=", <<ToString(i), ToString(j)>>, <<outcome>>)
  /\ UNCHANGED sensor

SensorNext ==
  \/ \E sdf \in SensorElements : CallLoad(sdf)
  \/ \E type \in {"altimeter", "magnetometer", "air_pressure", "camera"} :
       CallSetType(type)
  \/ \E typeStr \in {"altimeter", "depth", "none"} : CallSetTypeStr(typeStr)
  \/ CallSetName("t")
  \/ CallSetUpdateRate(10)
  \/ CallSetMagnetometerSensor(1)
  \/ CallSetAltimeterSensor(3)
  \/ CallSetAirPressureSensor(1)
  \/ CallCopyConstructor
  \/ CallCopyAssignment
  \/ \E i, j \in {1, 2}, outcome \in NullDereference : CallEquals(i, j, outcome)
  \/ \E i, j \in {1, 2}, outcome \in NullDereference : CallNotEquals(i, j, outcome)

SensorSpec == Init /\ [][SensorNext]_vars

----------------------------------------------------------------------------
(* What the properties below observe *)

\* reduction is about to start: ReduceFixedJoints was just called on the root
ReductionStarts ==
  /\ pc = "reduce"
  /\ stack = <<Frame(doc.names[1], "fixed", 1)>>
  /\ trace = <<Enter(doc.names[1])>>

\* the walk of ReduceFixedJoints over the tree is over
ReductionOver == pc \in {"create", "returned"} /\ doc.ok

\* position of an event in the trace, 0 when it did not happen
Pos(ev) ==
  IF \E i \in 1..Len(trace) : trace[i] = ev
  THEN CHOOSE i \in 1..Len(trace) : trace[i] = ev
  ELSE 0

Before(a, b) == Pos(a) # 0 /\ Pos(b) # 0 /\ Pos(a) < Pos(b)

\* in the document as given: the parent of a link, and whether the rule of
\* ReduceFixedJoints asks for the link to be lumped
GivenParent(d, name) == d.names[d.parentOf[IndexOf(d, name)]]

MustLump(d, name) == IsFixed(d, name) /\ GivenParent(d, name) # "world"

\* k hangs below l through fixed joints only
RECURSIVE FixedBelow(_, _, _)
FixedBelow(d, k, l) ==
  /\ IsFixed(d, k)
  /\ \/ GivenParent(d, k) = l
     \/ FixedBelow(d, GivenParent(d, k), l)

\* k is a link of a subtree of l, in the document as given
RECURSIVE IsBelow(_, _, _)
IsBelow(d, k, l) ==
  /\ HasParentJoint(d, k)
  /\ \/ GivenParent(d, k) = l
     \/ IsBelow(d, GivenParent(d, k), l)

\* the link holds the item in one of its groups
HeldBy(lk, name, item) ==
  LET groups == lk[name][IF item.kind = "visual" THEN "visual_groups"
                         ELSE "collision_groups"]
  IN  \E g \in DOMAIN groups : item \in Range(groups[g])

\* the conversion returned a document made from a robot model
Converted == pc = "returned" /\ doc.ok /\ out # EmptyDocument

\* the children with a given tag of the <model> of the returned document
Emitted(tag) == SelectSeq(out[1].sub[1].sub, LAMBDA e : e.name = tag)

\* the names of the <link> elements of the returned document, in order
EmittedLinks == [i \in 1..Len(Emitted("link")) |-> Attribute(Emitted("link")[i], "name")]

\* the text of the first child with a given tag of an element
TextOf(e, tag) == GetKeyValueAsString(e.sub[FirstChild(e, tag)])

\* the <joint> elements of the returned document whose child is a link
JointsOf(name) ==
  SelectSeq(Emitted("joint"), LAMBDA e : TextOf(e, "child") = <<name>>)

\* what was logged about a link while the document was made
WarningsAbout(name) ==
  SelectSeq(log, LAMBDA m : m.level = "warn" /\ m.about = name /\
                            m.what \in {"children links ignored",
                                        "children joints ignored",
                                        "parent joint ignored",
                                        "not modeled in sdf"})

----------------------------------------------------------------------------
(* C1 *)

SameRecords(a, b) ==
  \A key \in DOMAIN a \cup DOMAIN b : RecordsUnder(a, key) = RecordsUnder(b, key)

\* C1: the extension table carries nothing over between conversions: when
\* reduction starts in a call, g_extensions holds exactly the records parsed
\* from that call's input.
C1_TableHoldsOnlyThisInput ==
  ReductionStarts =>
    SameRecords(g_extensions,
                ParseSDFExtension(EmptyExtensions, doc.sdf,
                                  allocated - Len(doc.sdf)).ext)

----------------------------------------------------------------------------
(* C2 *)

\* C2: ReduceFixedJoints on a link recurses into every child attached by a
\* fixed joint, then lumps the link when its parent joint is FIXED and its
\* parent is not "world" (and only then), then recurses into every other
\* child; so a link is lumped only after every link hanging below it through
\* fixed joints has been lumped.
C2_ReduceOrder ==
  (doc.ok /\ pc \in {"reduce", "create", "returned"}) =>
    \A l \in Range(doc.names) :
      /\ Pos(Lump(l)) # 0 => MustLump(doc, l) /\ Before(Enter(l), Lump(l))
      /\ ReductionOver => Pos(Enter(l)) # 0 /\ (MustLump(doc, l) => Pos(Lump(l)) # 0)
      /\ \A k \in Range(ChildNames(doc, l)) :
           IF IsFixed(doc, k)
           THEN Pos(Lump(l)) # 0 => Before(Enter(k), Lump(l))
           ELSE Pos(Enter(k)) # 0 =>
                  /\ MustLump(doc, l) => Before(Lump(l), Enter(k))
                  /\ \A f \in Range(ChildNames(doc, l)) :
                       IsFixed(doc, f) => Before(Enter(f), Enter(k))
      /\ \A k \in Range(doc.names) :
           (FixedBelow(doc, k, l) /\ Pos(Lump(l)) # 0) => Before(Lump(k), Lump(l))

\* a lumped link with a lumped fixed child and an entered non-fixed child
C2_Witness ==
  /\ ReductionOver
  /\ \E l \in Range(doc.names) :
       /\ Pos(Lump(l)) # 0
       /\ \E k, f \in Range(ChildNames(doc, l)) :
            /\ IsFixed(doc, f) /\ Before(Lump(f), Lump(l))
            /\ ~IsFixed(doc, k) /\ Before(Lump(l), Enter(k))

----------------------------------------------------------------------------
(* C3 *)

\* walking upward from l in the document as given: the first link whose
\* parent joint is absent or not fixed or whose parent is "world"
RECURSIVE NearestKept(_, _)
NearestKept(d, l) ==
  IF MustLump(d, l) THEN NearestKept(d, GivenParent(d, l)) ELSE l

\* pose p composed once with the fixed-joint transform of every link skipped
\* on the way up from l
RECURSIVE AnchoredOrigin(_, _, _)
AnchoredOrigin(d, l, p) ==
  IF MustLump(d, l)
  THEN AnchoredOrigin(d, GivenParent(d, l),
                      TransformToParentFrame(p, d.jpose[IndexOf(d, l)]))
  ELSE p

\* C3: once a link l is lumped, every child of l attached by a non-fixed
\* joint has as parent the nearest ancestor of l that lumping does not
\* remove, its joint's parent_link_name is that ancestor's name, and its
\* joint origin is the given origin composed exactly once with the
\* fixed-joint transform of each link skipped on the way up.
C3_JointsRehomed ==
  (doc.ok /\ pc \in {"reduce", "create", "returned"}) =>
    \A l \in Range(doc.names) : \A k \in Range(ChildNames(doc, l)) :
      (Pos(Lump(l)) # 0 /\ ~IsFixed(doc, k)) =>
        /\ links[k].parent = NearestKept(doc, l)
        /\ links[k].parent_link_name = NearestKept(doc, l)
        /\ links[k].origin = AnchoredOrigin(doc, l, doc.jpose[IndexOf(doc, k)])

\* a non-fixed child of a lumped link has moved up by more than one link
C3_Witness ==
  /\ ReductionOver
  /\ \E l \in Range(doc.names) : \E k \in Range(ChildNames(doc, l)) :
       /\ Pos(Lump(l)) # 0
       /\ ~IsFixed(doc, k)
       /\ NearestKept(doc, l) # GivenParent(doc, l)
       /\ links[k].parent = NearestKept(doc, l)

----------------------------------------------------------------------------
(* C4 *)

\* the identities of the records of a list, in order
Ids(records) == [i \in 1..Len(records) |-> records[i].id]

CountRecords(ext) ==
  LET keys == SortedKeys(ext)
  IN  Len(Flatten([j \in 1..Len(keys) |-> ext[keys[j]]]))

\* the step that lumps the link on top of the stack
LumpStep == pc = "reduce" /\ trace' = Append(trace, Lump(Top.link))

\* what the step leaves of the table, l being lumped into p over the joint
\* transform j
MovedNotCopied(before, after, l, p, j) ==
  /\ CountRecords(after) = CountRecords(before)
  /\ RecordsUnder(after, l) = <<>>
  /\ Ids(RecordsUnder(after, p)) = Ids(RecordsUnder(before, p)) \o Ids(RecordsUnder(before, l))
  /\ \A i \in 1..Len(RecordsUnder(before, l)) :
       after[p][Len(RecordsUnder(before, p)) + i].reductionTransform =
         TransformToParentFrame(before[l][i].reductionTransform, j)
  /\ \A key \in (DOMAIN before \cup DOMAIN after) \ {l, p} :
       /\ Ids(RecordsUnder(after, key)) = Ids(RecordsUnder(before, key))
       /\ \A i \in 1..Len(RecordsUnder(before, key)) :
            after[key][i].reductionTransform = before[key][i].reductionTransform

\* C4: ReduceSDFExtensionToParent moves records and never copies them: when
\* link L is lumped into P, L's list is empty afterwards, P's list is what it
\* was followed by L's records in their order, the number of records in the
\* table is unchanged, every other key holds the same records, and each
\* moved record's reductionTransform is composed once with L's joint
\* transform. Records are told apart by their identity.
C4_MovedNotCopied ==
  [][LumpStep =>
       MovedNotCopied(g_extensions, g_extensions', Top.link,
                      links[Top.link].parent, links[Top.link].origin)]_vars

\* records of a lumped link arrived behind records its parent already had
C4_Witness ==
  /\ pc = "reduce"
  /\ \E l \in Range(doc.names) :
       /\ trace[Len(trace)] = Lump(l)
       /\ l \in DOMAIN g_extensions
       /\ g_extensions[l] = <<>>
       /\ GivenParent(doc, l) \in DOMAIN g_extensions
       /\ Len(g_extensions[GivenParent(doc, l)]) >= 2
       /\ \E i \in 1..Len(g_extensions[GivenParent(doc, l)]) :
            g_extensions[GivenParent(doc, l)][i].reductionTransform # IdentityPose
       /\ \E key \in DOMAIN g_extensions \ {l, GivenParent(doc, l)} :
            g_extensions[key] # <<>>

----------------------------------------------------------------------------
(* C5 *)

\* the child tags the rewriters treat as references to a link, by blob tag;
\* <projector> is looked for in every blob
ReferenceFields(blobName) ==
  {"projector"} \cup
  (IF blobName = "plugin" THEN {"bodyName", "frameName"}
   ELSE IF blobName = "gripper" THEN {"gripper_link", "palm_link"}
   ELSE IF blobName = "joint" THEN {"parent", "child"}
   ELSE {})

\* the texts of the children of a blob with a given tag, in order
FieldTexts(blob, field) ==
  LET at == SelectSeq([i \in 1..Len(blob.sub) |-> i],
                      LAMBDA i : blob.sub[i].name = field)
  IN  [k \in 1..Len(at) |-> GetKeyValueAsString(blob.sub[at[k]])]

\* what a reference naming l reads once l is lumped into p
Renamed(field, text, l, p) ==
  IF field = "projector"
  THEN IF Len(text) >= 3 /\ text[1] = l /\ text[2] = "/"
       THEN <<p>> \o Tail(text) ELSE text
  ELSE IF text = <<l>> THEN <<p>> ELSE text

SameTexts(a, b) ==
  /\ Len(a) = Len(b)
  /\ \A t \in Range(a) \cup Range(b) :
       Cardinality({i \in 1..Len(a) : a[i] = t}) =
       Cardinality({i \in 1..Len(b) : b[i] = t})

\* a <projector> text that is l alone, without the "/" the rewriter expects
Slashless(blob, l) == \E t \in Range(FieldTexts(blob, "projector")) : t = <<l>>

ReferencesRenamed(before, after, l, p) ==
  \A field \in ReferenceFields(before.name) :
    (field = "projector" /\ Slashless(before, l)) \/
    SameTexts([i \in 1..Len(FieldTexts(before, field)) |->
                 Renamed(field, FieldTexts(before, field)[i], l, p)],
              FieldTexts(after, field))

\* the record of a table that has a given identity
RecordWithId(ext, id) ==
  LET all == AllRecords(ext)
  IN  all[CHOOSE i \in 1..Len(all) : all[i].id = id]

\* C5: after link L is lumped into P, in every blob of every record of the
\* table each recognised reference field (plugin bodyName and frameName,
\* gripper gripper_link and palm_link, joint parent and child) that read L
\* reads P, a projector reference "L/<name>" reads "P/<name>", and the
\* recognised fields that did not read L keep their text.
C5_EveryReferenceRenamed ==
  [][LumpStep =>
       \A id \in Range(Ids(AllRecords(g_extensions))) :
         \A b \in 1..Len(RecordWithId(g_extensions, id).blobs) :
           ReferencesRenamed(RecordWithId(g_extensions, id).blobs[b],
                             RecordWithId(g_extensions', id).blobs[b],
                             Top.link, links[Top.link].parent)]_vars

----------------------------------------------------------------------------
(* C6 *)

WorldChild(d, l) == HasParentJoint(d, l) /\ GivenParent(d, l) = "world"

\* the identities of the records parsed in this call from the <sdf> elements
\* that refer to l
ParsedFor(l) ==
  {allocated - Len(doc.sdf) + i : i \in {j \in 1..Len(doc.sdf) : doc.sdf[j].reference = l}}

\* nothing of l has gone to another link and no link below l has gone above
StaysInPlace(l) ==
  /\ Pos(Lump(l)) = 0
  /\ \A kind \in {"visual", "collision"} :
       /\ HeldBy(links, l, Item(kind, l))
       /\ \A n \in Range(doc.names) \ {l} : ~HeldBy(links, n, Item(kind, l))
       /\ origin[Item(kind, l)] = ItemOrigin(kind)
  /\ ParsedFor(l) \subseteq Range(Ids(RecordsUnder(g_extensions, l)))
  /\ \A k \in Range(ChildNames(doc, l)) :
       /\ links[k].parent = l
       /\ links[k].parent_link_name = l
       /\ links[k].origin = doc.jpose[IndexOf(doc, k)]
  /\ \A k \in Range(doc.names) :
       IsBelow(doc, k, l) =>
         links[k].parent = l \/ IsBelow(doc, links[k].parent, l)

\* C6 as stated: a link whose parent is "world" is never lumped, none of its
\* records, visuals, collisions or child joints goes to another link, the
\* walk of ReduceJointsToParent never passes above it, and CreateSDF emits
\* it as a link element of its own.
C6_WorldChildAlwaysEmitted ==
  (doc.ok /\ pc \in {"reduce", "create", "returned"}) =>
    \A l \in Range(doc.names) :
      WorldChild(doc, l) =>
        /\ StaysInPlace(l)
        /\ Converted => \E i \in 1..Len(EmittedLinks) : EmittedLinks[i] = <<l>>

\* C6, amended: a link whose parent is "world" is never lumped, none of its
\* records, visuals, collisions or child joints goes to another link, the
\* walk of ReduceJointsToParent never passes above it, and CreateSDF emits
\* it as a link element of its own exactly when it has an inertial block
\* with a mass that is not zero.
C6_WorldChildKept ==
  (doc.ok /\ pc \in {"reduce", "create", "returned"}) =>
    \A l \in Range(doc.names) :
      WorldChild(doc, l) =>
        /\ StaysInPlace(l)
        /\ Converted =>
             (~HasNoInertia(links, l) <=>
                \E i \in 1..Len(EmittedLinks) : EmittedLinks[i] = <<l>>)

\* a link fixed to "world" with a record of its own received the records of
\* a lumped child and is emitted
C6_Witness ==
  /\ Converted
  /\ \E l \in Range(doc.names) :
       /\ WorldChild(doc, l)
       /\ IsFixed(doc, l)
       /\ \E k \in Range(ChildNames(doc, l)) : Pos(Lump(k)) # 0
       /\ ParsedFor(l) # {}
       /\ Len(RecordsUnder(g_extensions, l)) >= 2
       /\ \E i \in 1..Len(EmittedLinks) : EmittedLinks[i] = <<l>>

----------------------------------------------------------------------------
(* C7 *)

\* the group an item is expected in once it is lumped, given the group of
\* the input it came in
LumpedGroup(item) ==
  IF IsLumpGroup(doc.group) THEN doc.group ELSE <<LumpPrefix, item.link>>

GroupFields == {"visual_groups", "collision_groups"}

----------------------------------------------------------------------------
(* C8 *)

\* CreateSDF reaches l and drops it: l has no inertia and no link above it
\* is dropped before
TopDropped(l) ==
  /\ l # "world"
  /\ HasNoInertia(links, l)
  /\ \A a \in Range(doc.names) :
       IsBelow(doc, l, a) => a = "world" \/ ~HasNoInertia(links, a)

\* no <link> and no <joint> is emitted for l
NotEmitted(l) ==
  /\ \A i \in 1..Len(EmittedLinks) : EmittedLinks[i] # <<l>>
  /\ JointsOf(l) = <<>>

\* l and the links of its subtrees are left out, nothing is logged about
\* a link below l
SubtreesExcluded(l) ==
  /\ NotEmitted(l)
  /\ \A k \in Range(doc.names) :
       IsBelow(doc, k, l) => NotEmitted(k) /\ WarningsAbout(k) = <<>>

----------------------------------------------------------------------------
(* C9 *)

\* the chain world -> base (FIXED) -> link1 (REVOLUTE) -> link2 (FIXED),
\* every link with a mass that is not zero
IsChain(d) ==
  /\ d.ok
  /\ d.names = <<"world", "base", "link1", "link2">>
  /\ d.parentOf = <<0, 1, 2, 3>>
  /\ d.jtype = <<"NONE", "FIXED", "REVOLUTE", "FIXED">>
  /\ \A i \in 1..4 : d.inertial[i].present /\ d.inertial[i].mass # 0
  /\ ~IsLumpGroup(d.group)

----------------------------------------------------------------------------
(* C10 *)

\* C10: malformed numeric text in a numeric extension field is a local
\* error: no exception leaves the InitModel* call.
C10_NoExceptionLeaves == pc # "threw"

----------------------------------------------------------------------------
(* C11 *)

\* the text of the value of an element, that of T() when it has no value
ValueText(e) == IF e.value = <<>> THEN <<"0">> ELSE e.value[1].value

\* the default text of the value of an element
DefaultText(e) == IF e.value = <<>> THEN <<"0">> ELSE e.value[1].defaultValue

\* the positions in a sequence of Params or Elements of those with a name
AttributesAt(key) ==
  {i \in 1..Len(element.attributes) : element.attributes[i].key = key}
ChildrenAt(name) ==
  {i \in 1..Len(element.elements) : element.elements[i].name = name}
DescriptionsAt(name) ==
  {i \in 1..Len(element.elementDescriptions) : element.elementDescriptions[i].name = name}

Lowest(S) == CHOOSE i \in S : \A j \in S : i <= j

NotFound(key) ==
  <<[level |-> "err", what |-> "Unable to find value for key", about |-> key]>>

\* what Get(key) is to return and to log, tier by tier
Resolved(key) ==
  IF key = "" THEN ret.val = ValueText(element) /\ log = <<>>
  ELSE IF AttributesAt(key) # {}
       THEN ret.val = element.attributes[Lowest(AttributesAt(key))].value /\ log = <<>>
  ELSE IF ChildrenAt(key) # {}
       THEN ret.val = ValueText(element.elements[Lowest(ChildrenAt(key))]) /\ log = <<>>
  ELSE IF DescriptionsAt(key) # {}
       THEN /\ ret.val = DefaultText(element.elementDescriptions[Lowest(DescriptionsAt(key))])
            /\ log = <<>>
  ELSE ret.val = <<"0">> /\ log = NotFound(key)

\* C11: Get<T>(key) with a non-empty key returns the attribute of that name
\* when there is one, else the value of the first instance child of that
\* name, else the default of the registered description of that name, else
\* it logs an error and returns T(); with an empty key it decodes the
\* element's own value.  An attribute wins over a child and a description,
\* a child over a description.
C11_GetResolution == ret.fn = "Get" => Resolved(ret.arg[1])

\* Get("x") was answered by the attribute although a child "x" holding
\* another value and a description "x" exist
C11_Witness ==
  /\ ret.fn = "Get"
  /\ ret.arg = <<"x">>
  /\ AttributesAt("x") # {}
  /\ ChildrenAt("x") # {}
  /\ DescriptionsAt("x") # {}
  /\ ValueText(element.elements[Lowest(ChildrenAt("x"))]) = <<"7">>
  /\ ret.val = AttributeDefault

----------------------------------------------------------------------------
(* C12 *)

\* no attribute "x", no child "x" yet, and a description "x" of default "5"
OnlyDescribed ==
  /\ AttributesAt("x") = {}
  /\ ChildrenAt("x") = {}
  /\ DescriptionsAt("x") # {}
  /\ DefaultText(element.elementDescriptions[Lowest(DescriptionsAt("x"))]) = <<"5">>

\* C12: on an element with attribute "x" unset and a description "x" of
\* default "5", Get<int>("x") returns 5 and leaves HasElement("x") false;
\* GetElement("x")->Set(7) makes the child, after which HasElement("x") is
\* true and Get<int>("x") returns 7, while the description still holds the
\* default 5.
C12_AutoVivification ==
  [][OnlyDescribed =>
       /\ (ret'.fn = "Get" /\ ret'.arg = <<"x">>) =>
            /\ ret'.val = <<"5">>
            /\ ~HasElement(element', "x")
       /\ (ret'.fn = "GetElement->Set" /\ ret'.arg = <<"x", "7">>) =>
            /\ ret'.val = <<"true">>
            /\ HasElement(element', "x")
            /\ Get(element', "x").val = 7
            /\ element'.elementDescriptions = element.elementDescriptions
            /\ OwnValue(GetElementDescription(element', "x")[1]) = 5]_vars

\* GetElement("x")->Set(7) has made the only child of an element that has a
\* description "x" of default "5" and no attribute "x"
C12_Witness ==
  /\ ret.fn = "GetElement->Set"
  /\ ret.arg = <<"x", "7">>
  /\ AttributesAt("x") = {}
  /\ Len(element.elements) = 1
  /\ ValueText(element.elements[1]) = <<"7">>
  /\ DefaultText(element.elementDescriptions[Lowest(DescriptionsAt("x"))]) = <<"5">>

----------------------------------------------------------------------------
(* C13 *)

\* Unbuilt: freshly constructed, no schema; Populated: it has instance children
Unbuilt(e) ==
  e.value = <<>> /\ e.attributes = <<>> /\ e.elements = <<>> /\ e.elementDescriptions = <<>>
Populated(e) == e.elements # <<>>

\* AddElement(name) without a description of that name: a null pointer, an
\* error in the log and no child
FailedAddElement ==
  (ret'.fn = "AddElement" /\ ~HasElementDescription(element, ret'.arg[1])) =>
    /\ element' = element
    /\ ret'.val = <<>>
    /\ log' # <<>>

----------------------------------------------------------------------------
(* C14 *)

\* C14: Set<T>(v) on an element without a value Param returns false and
\* changes nothing; on an element with one it stores v there and returns
\* true.  The failure is reported by the boolean alone: nothing is logged.
C14_SetReportsByBoolean ==
  [][ret'.fn = "Set" =>
       /\ log' = <<>>
       /\ IF element.value = <<>>
          THEN ret'.val = <<"false">> /\ element' = element
          ELSE /\ ret'.val = <<"true">>
               /\ element'.value[1].value = ret'.arg
               /\ element' = [element EXCEPT !.value = element'.value]]_vars

\* Set has just failed on an element that has attributes and no value
C14_Witness ==
  /\ ret.fn = "Set"
  /\ ret.val = <<"false">>
  /\ element.value = <<>>
  /\ element.attributes # <<>>

----------------------------------------------------------------------------
(* C15 *)

\* cosine and sine of k quarter turns
QuarterCos(k) == CASE k % 4 = 0 -> 1 [] k % 4 = 1 -> 0 [] k % 4 = 2 -> -1 [] k % 4 = 3 -> 0
QuarterSin(k) == CASE k % 4 = 0 -> 0 [] k % 4 = 1 -> 1 [] k % 4 = 2 -> 0 [] k % 4 = 3 -> -1

\* T.rot * P.pos + T.pos and T.rot * P.rot, written out
RotateThenTranslate(P, T) ==
  Pose(<<QuarterCos(T.rot) * P.pos[1] - QuarterSin(T.rot) * P.pos[2] + T.pos[1],
         QuarterSin(T.rot) * P.pos[1] + QuarterCos(T.rot) * P.pos[2] + T.pos[2],
         P.pos[3] + T.pos[3]>>,
       (T.rot + P.rot) % 4)

\* the pose P of something of link l once l and every link above it that is
\* lumped has been lumped: the joint transforms applied from l upward, once each
RECURSIVE LumpedPose(_, _, _)
LumpedPose(d, l, P) ==
  IF MustLump(d, l)
  THEN LumpedPose(d, GivenParent(d, l), RotateThenTranslate(P, d.jpose[IndexOf(d, l)]))
  ELSE P

\* C15: TransformToParentFrame(P, T) returns the position T.rot * P.pos +
\* T.pos and the rotation T.rot * P.rot (for T a quarter turn about Z with
\* translation (1,0,0) and P.pos = (1,0,0), the position (1,1,0)); a visual
\* or collision lumped through a chain of fixed joints ends with the joint
\* transforms composed in order from its link upward, each applied once.
C15_ComposedInOrder ==
  /\ TransformToParentFrame(Pose(<<1, 0, 0>>, 0), Pose(<<1, 0, 0>>, 1)).pos = <<1, 1, 0>>
  /\ ReductionOver =>
       \A it \in DOMAIN origin :
         origin[it] = LumpedPose(doc, it.link, ItemOrigin(it.kind))

\* a visual went up two fixed joints whose rotations are not multiples of a
\* full turn, and its pose is not what the other order of the two gives
C15_Witness ==
  /\ ReductionOver
  /\ \E l \in Range(doc.names) :
       /\ MustLump(doc, l)
       /\ MustLump(doc, GivenParent(doc, l))
       /\ doc.jpose[IndexOf(doc, l)].rot # 0
       /\ doc.jpose[IndexOf(doc, GivenParent(doc, l))].rot # 0
       /\ HeldBy(links, NearestKept(doc, l), Item("visual", l))
       /\ origin[Item("visual", l)] =
            RotateThenTranslate(
              RotateThenTranslate(ItemOrigin("visual"), doc.jpose[IndexOf(doc, l)]),
              doc.jpose[IndexOf(doc, GivenParent(doc, l))])
       /\ origin[Item("visual", l)] #
            RotateThenTranslate(
              RotateThenTranslate(ItemOrigin("visual"),
                                  doc.jpose[IndexOf(doc, GivenParent(doc, l))]),
              doc.jpose[IndexOf(doc, l)])

----------------------------------------------------------------------------
(* C16 *)

NoRepeat(s) == \A i, j \in 1..Len(s) : s[i] = s[j] => i = j

\* no group of a link holds the same visual or collision twice
NoItemTwice(lk) ==
  \A l \in DOMAIN lk : \A field \in {"visual_groups", "collision_groups"} :
    \A g \in DOMAIN lk[l][field] : NoRepeat(lk[l][field][g])

AlreadyThere(linkName) ==
  <<[level |-> "warn", what |-> "already exists under group", about |-> linkName]>>

\* what a call with that group and item makes of the groups of one kind of
\* the link, and of the log
AddedOnce(before, after, groupName, item) ==
  IF groupName \in DOMAIN before /\ item \in Range(before[groupName])
  THEN after = before /\ log' = AlreadyThere("chassis")
  ELSE IF groupName \notin DOMAIN before
  THEN /\ DOMAIN after = DOMAIN before \cup {groupName}
       /\ after[groupName] = <<item>>
       /\ \A g \in DOMAIN before : after[g] = before[g]
       /\ log' = <<>>
  ELSE /\ DOMAIN after = DOMAIN before
       /\ after[groupName] = Append(before[groupName], item)
       /\ \A g \in DOMAIN before \ {groupName} : after[g] = before[g]
       /\ log' = <<>>

\* C16: ReduceCollisionToParent and ReduceVisualToParent never store the
\* same item twice in one group: adding an item the group already holds
\* leaves the group as it was and logs a warning, adding to a group the link
\* does not have creates the group holding that one item, and otherwise the
\* item is appended.
C16_AddIsIdempotent ==
  [][/\ NoItemTwice(links')
     /\ ret'.fn = "ReduceCollisionToParent" =>
          /\ AddedOnce(links["chassis"].collision_groups,
                       links'["chassis"].collision_groups,
                       Tail(ret'.arg), Item("collision", Head(ret'.arg)))
          /\ links' = [links EXCEPT !["chassis"].collision_groups =
                                      links'["chassis"].collision_groups]
     /\ ret'.fn = "ReduceVisualToParent" =>
          /\ AddedOnce(links["chassis"].visual_groups,
                       links'["chassis"].visual_groups,
                       Tail(ret'.arg), Item("visual", Head(ret'.arg)))
          /\ links' = [links EXCEPT !["chassis"].visual_groups =
                                      links'["chassis"].visual_groups]]_vars

\* the collision of "base" was just added again to a group made for it, which
\* holds it once, and a warning was logged
C16_Witness ==
  /\ ret.fn = "ReduceCollisionToParent"
  /\ ret.arg = <<"base", LumpPrefix, "base">>
  /\ <<LumpPrefix, "base">> \in DOMAIN links["chassis"].collision_groups
  /\ links["chassis"].collision_groups[<<LumpPrefix, "base">>] = <<Item("collision", "base")>>
  /\ log = AlreadyThere("chassis")

----------------------------------------------------------------------------
(* C17 *)

\* the <link> elements of the returned document
EmittedLinkAt(i) == Emitted("link")[i]

\* the text of <mass> in the <inertial> of a <link> element
MassText(e) == TextOf(e.sub[FirstChild(e, "inertial")], "mass")

----------------------------------------------------------------------------
(* C18 *)

\* the key of the last call of ParseVector3: null, or the pieces of its text
NullKey == Len(ret.arg) = 1
KeyPieces == ret.arg[1]

\* a piece that is not empty and is no number
Malformed(piece) == piece # "" /\ \A n \in NumRange : ToString(n) # piece

\* C18: ParseVector3 on a key whose text has a component that is no number
\* logs an error and returns (0,0,0), and returns to its caller, which goes
\* on; on a null key it returns (0,0,0) too.
C18_MalformedVectorIsZero ==
  ret.fn = "ParseVector3" =>
    IF NullKey THEN ret.val = <<0, 0, 0>> /\ log = <<>>
    ELSE (\E i \in 1..Len(KeyPieces) : Malformed(KeyPieces[i])) =>
           /\ ret.val = <<0, 0, 0>>
           /\ Len(log) = 1
           /\ log[1].level = "err"

\* the text "1 abc 1" was given with scale 3
C18_Witness ==
  /\ ret.fn = "ParseVector3"
  /\ ret.arg = <<<<"1", "abc", "1">>, <<"3">>>>
  /\ ret.val = <<0, 0, 0>>
  /\ log # <<>>

----------------------------------------------------------------------------
(* C19 *)

\* a call of InitModelString or InitModelFile on an input that cannot be parsed
UnparsableCall == calls' = calls + 1 /\ ~doc'.ok

\* C19: on an input that cannot be parsed InitModelString (and InitModelFile
\* on a file that cannot be loaded) logs an error and returns an empty
\* document, leaves the extension table as it was, runs neither the
\* reduction nor the emission, and returns to its caller.
C19_UnparsableInput ==
  [][UnparsableCall =>
       /\ pc' = "returned"
       /\ out' = EmptyDocument
       /\ Len(log') = 1
       /\ log'[1].level = "err"
       /\ g_extensions' = g_extensions
       /\ allocated' = allocated
       /\ stack' = <<>>
       /\ trace' = <<>>]_vars

\* a process whose table holds a record of its first conversion was given
\* a text parseURDF rejects
C19_Witness ==
  /\ pc = "returned"
  /\ calls = 2
  /\ ~doc.ok
  /\ out = EmptyDocument
  /\ log = <<[level |-> "err", what |-> "Unable to call parseURDF", about |-> ""]>>
  /\ \E key \in DOMAIN g_extensions : g_extensions[key] # <<>>

----------------------------------------------------------------------------
(* C20 *)

\* C20: every document a conversion returns that is not empty has a single
\* root element <sdf> with the attribute version "1.3", and that element
\* holds exactly one element, the <model> whose name is the name of the robot.
C20_DocumentShape ==
  (pc = "returned" /\ out # EmptyDocument) =>
    /\ Len(out) = 1
    /\ out[1].name = "sdf"
    /\ Attribute(out[1], "version") = <<"1.3">>
    /\ Len(out[1].sub) = 1
    /\ out[1].sub[1].name = "model"
    /\ Attribute(out[1].sub[1], "name") = <<doc.robot>>

\* the robot "arm" was converted into a document that holds a link
C20_Witness ==
  /\ Converted
  /\ doc.robot = "arm"
  /\ Attribute(out[1].sub[1], "name") = <<"arm">>
  /\ Emitted("link") # <<>>
----------------------------------------------------------------------------
(* C21 *)

\* the children of e with that tag
ChildrenNamed(e, tag) == SelectSeq(e.sub, LAMBDA c : c.name = tag)

\* the texts of the <collision> elements of the <contact> elements of the
\* <sensor> blobs written under e
ContactCollisionsUnder(e) ==
  {GetKeyValueAsString(c) :
     c \in UNION {Range(ChildrenNamed(k, "collision")) :
            k \in UNION {Range(ChildrenNamed(s, "contact")) :
                   s \in Range(ChildrenNamed(e, "sensor"))}}}

\* the contact collisions named anywhere in the emitted model
EmittedContactCollisions ==
  ContactCollisionsUnder(out[1].sub[1])
    \cup UNION {ContactCollisionsUnder(l) : l \in Range(Emitted("link"))}

\* the names of the <collision> elements of the emitted links
EmittedCollisionNames ==
  {Attribute(c, "name") :
     c \in UNION {Range(ChildrenNamed(l, "collision")) : l \in Range(Emitted("link"))}}

\* the link whose collision a contact text names: "<L>_collision" as written
\* in the input, "<P>_collision_<L>" once rewritten
NamedLink(text) == IF Len(text) = 3 THEN text[3] ELSE text[1]

\* C21: after the reduction of a fixed chain of any length, a contact-sensor
\* blob whose <collision> named "<L>_collision" for a lumped link L names a
\* collision element that the emitted document contains (the one named
\* "<S>_collision_<L>" under the surviving link S).
C21_ContactCollisionEmitted ==
  (Converted /\ calls = 1) =>
    \A text \in EmittedContactCollisions :
      MustLump(doc, NamedLink(text)) => text \in EmittedCollisionNames
----------------------------------------------------------------------------
(* C22 *)

\* every link of the document has inertial data with a mass that is not zero
AllHaveInertia ==
  \A i \in 1..Len(doc.names) : doc.inertial[i].present /\ doc.inertial[i].mass # 0

\* how many <link> elements of the returned document carry the name of l
TimesEmitted(l) == Cardinality({i \in 1..Len(EmittedLinks) : EmittedLinks[i] = <<l>>})

\* how many times ReduceFixedJoints lumped l
TimesLumped(l) == Cardinality({i \in 1..Len(trace) : trace[i] = Lump(l)})

\* the groups of a link that hold the item, and whether a group holds it once
GroupsHolding(groups, item) == {g \in DOMAIN groups : item \in Range(groups[g])}

HeldOnce(have, item) == Cardinality({i \in 1..Len(have) : have[i] = item}) = 1

\* the links the reduction rule folds into s
LumpedInto(s) == {k \in Range(doc.names) : MustLump(doc, k) /\ NearestKept(doc, k) = s}

\* the emitted <link> of s carries one element of that tag for s and one
\* for every link folded into it
OneElementEach(s, tag) ==
  \A i \in 1..Len(EmittedLinks) :
    EmittedLinks[i] = <<s>> =>
      Len(ChildrenNamed(Emitted("link")[i], tag)) = 1 + Cardinality(LumpedInto(s))

\* l is emitted as its own <link> and was not lumped
EmittedAsItself(l) ==
  /\ TimesEmitted(l) = 1
  /\ TimesLumped(l) = 0
  /\ OneElementEach(l, "collision")
  /\ OneElementEach(l, "visual")

\* the group of the receiving link an item of a lumped link is looked for
\* in: "lump::"+<its link>, or, when relumped is set and the group it was
\* given in is already prefixed "lump::", the group of that same name
GroupSought(item, relumped) ==
  IF relumped THEN LumpedGroup(item) ELSE <<LumpPrefix, item.link>>

\* l was lumped and is not emitted; its nearest ancestor that is not lumped
\* is emitted and holds each item of l once, in the group sought
FoldedInto(l, s, relumped) ==
  /\ TimesLumped(l) = 1
  /\ TimesEmitted(l) = 0
  /\ TimesEmitted(s) = 1
  /\ \A kind \in {"visual", "collision"} :
       /\ GroupsHolding(links[s][kind \o "_groups"], Item(kind, l)) =
            {GroupSought(Item(kind, l), relumped)}
       /\ HeldOnce(links[s][kind \o "_groups"][GroupSought(Item(kind, l), relumped)],
                   Item(kind, l))

\* C22 as stated: over a tree in which every link has a mass that is not
\* zero, every link is emitted as its own link element (parent joint absent
\* or not fixed, or parent named "world") or else was lumped, is not
\* emitted, and has each of its visuals and collisions exactly once in the
\* group "lump::"+<its name> of its nearest ancestor that is not lumped,
\* which is emitted; no link is both, none is neither.
C22_EveryLinkOnce ==
  (Converted /\ AllHaveInertia) =>
    \A l \in Range(doc.names) :
      IF MustLump(doc, l)
      THEN FoldedInto(l, NearestKept(doc, l), FALSE)
      ELSE EmittedAsItself(l)

\* C22, amended: the same for every link but a root named "world", which
\* is neither emitted nor lumped; an item whose group in the input is
\* already prefixed "lump::" sits in the ancestor's group of that same
\* name instead of "lump::"+<its name>.
C22_EveryLinkButWorldOnce ==
  (Converted /\ AllHaveInertia) =>
    \A l \in Range(doc.names) :
      IF l = "world" /\ ~HasParentJoint(doc, l)
      THEN TimesEmitted(l) = 0 /\ TimesLumped(l) = 0
      ELSE IF MustLump(doc, l)
      THEN FoldedInto(l, NearestKept(doc, l), TRUE)
      ELSE EmittedAsItself(l)

\* a tree with a link lumped through two levels, a link kept below a lumped
\* one and a link emitted on its own
C22_Witness ==
  /\ Converted /\ AllHaveInertia
  /\ \E l, m, k \in Range(doc.names) :
       /\ MustLump(doc, l) /\ MustLump(doc, m)
       /\ GivenParent(doc, l) = m
       /\ NearestKept(doc, l) = doc.names[1]
       /\ ~MustLump(doc, k) /\ HasParentJoint(doc, k)
       /\ TimesEmitted(k) = 1 /\ TimesEmitted(l) = 0
----------------------------------------------------------------------------
(* C23 *)

\* the numbers the text of the last call of ParseVector3 holds, in order,
\* and the scale it was called with
KeyNumbers ==
  LET given == SelectSeq(KeyPieces, LAMBDA p : p # "")
  IN  [i \in 1..Len(given) |-> NumeralValue(<<given[i]>>)]

KeyScale == NumeralValue(ret.arg[2])

WellFormed == ~NullKey /\ \A i \in 1..Len(KeyPieces) : ~Malformed(KeyPieces[i])

\* C23: for a text of three numbers "x y z" ParseVector3(key, scale) returns
\* (scale*x, scale*y, scale*z); and, for a text of fewer numbers too, every
\* component it returns is zero or one of the components it parsed, scaled:
\* no index beyond the parsed components is read.
C23_ScaledVector ==
  (ret.fn = "ParseVector3" /\ WellFormed) =>
    /\ Len(KeyNumbers) = 3 =>
         ret.val = <<KeyScale * KeyNumbers[1], KeyScale * KeyNumbers[2],
                     KeyScale * KeyNumbers[3]>>
    /\ \A i \in 1..3 :
         ret.val[i] \in {0} \cup {KeyScale * KeyNumbers[k] : k \in 1..Len(KeyNumbers)}
----------------------------------------------------------------------------
(* C24.  ReduceFixedJoints is sequential code: once InitModelString has     *)
(* called it, the thread keeps taking its next step, so each step that is  *)
(* enabled is eventually taken.                                            *)

\* a step of the walk of ReduceFixedJoints
ReduceFixedJointsStep ==
  \/ RecurseFixedChild
  \/ \E undef \in UndefValues : LumpLink(undef)
  \/ KeepLink
  \/ RecurseFreeChild
  \/ ReturnFromLink

\* the trees ReduceFixedJoints is run on by itself: every shape and every
\* choice of fixed and revolute joints, without extensions
WalkDocs(most) ==
  UNION {{Plain(root, n, p, t, 0, AllInertial(n), <<"default">>, <<>>) :
            root \in RootNames, p \in ParentMaps(n),
            t \in JointTypesOver(n, {"FIXED", "REVOLUTE"})} :
         n \in 1..most}

\* InitModelString has just called ReduceFixedJoints on the root link
ReduceFixedJointsInit ==
  /\ pc = "reduce"
  /\ calls = 1
  /\ doc \in WalkDocs(MaxLinks)
  /\ links = BuildLinks(doc)
  /\ origin = BuildOrigins(doc)
  /\ g_extensions = EmptyExtensions
  /\ allocated = 0
  /\ stack = <<Frame(doc.names[1], "fixed", 1)>>
  /\ trace = <<Enter(doc.names[1])>>
  /\ out = EmptyDocument
  /\ log = <<>>
  /\ element = NewElement("root")
  /\ ret = NoCall
  /\ sensor = NoSensors

\* the walk goes on: every step of it changes the stack of activation
\* records, and the step that reaches the lumping block is told by the stack
\* and the trace alone, whatever the block leaves in the robot model
WalkGoesOn ==
  RecurseFixedChild \/ PassesLumping \/ KeepLink \/ RecurseFreeChild \/ ReturnFromLink

walk == <<stack, trace>>

ReduceFixedJointsSpec ==
  ReduceFixedJointsInit /\ [][ReduceFixedJointsStep]_vars /\ WF_walk(WalkGoesOn)

\* how many times ReduceFixedJoints was invoked on l
TimesEntered(l) == Cardinality({i \in 1..Len(trace) : trace[i] = Enter(l)})

\* no link is entered or lumped twice, and once the walk is over every link
\* of the tree was entered
OnceEach ==
  doc.ok =>
    \A l \in Range(doc.names) :
      /\ TimesEntered(l) <= 1
      /\ TimesLumped(l) <= 1
      /\ ReductionOver => TimesEntered(l) = 1

\* the children of l attached by a joint that is not fixed
FreeChildren(l) == {k \in Range(ChildNames(doc, l)) : JointType(doc, k) # "FIXED"}

\* C24: on any finite link tree ReduceFixedJoints terminates; it is invoked
\* on every link exactly once and lumps each link at most once; and the
\* upward walk of ReduceJointsToParent stops at the first ancestor whose
\* parent joint is absent or not fixed or whose parent is "world".
C24_ReductionTerminates ==
  /\ []OnceEach
  /\ [][LumpStep =>
          \A k \in FreeChildren(Top.link) :
            links'[k].parent = NearestKept(doc, Top.link)]_vars
  /\ (pc = "reduce") ~> (pc = "create")

\* the walk over a chain of two fixed joints with a revolute joint below is
\* over: the walk of ReduceJointsToParent went up two links
C24_Witness ==
  /\ pc = "create"
  /\ \E l, m, k \in Range(doc.names) :
       /\ MustLump(doc, l) /\ MustLump(doc, m)
       /\ GivenParent(doc, l) = m
       /\ k \in FreeChildren(l)
       /\ TimesLumped(l) = 1 /\ TimesLumped(m) = 1
       /\ links[k].parent = GivenParent(doc, m)
----------------------------------------------------------------------------
(* C25 *)

\* the <limit> of the <axis> of an emitted <joint>
LimitOf(j) == j.sub[FirstChild(j, "axis")].sub[1]

\* the tags of the children of an element, in order
TagsOf(e) == [i \in 1..Len(e.sub) |-> e.sub[i].name]

\* the number a child of an element holds
NumberAt(e, tag) == NumeralValue(TextOf(e, tag))

GivenLimits(l) == doc.limits[IndexOf(doc, l)]

Swapped(l) ==
  \E i \in 1..Len(log) :
    log[i] = [level |-> "warn", what |-> "switching the two", about |-> l]

\* the limit element carries the four values of the joint of l, the stops
\* in order, and the swap was logged exactly when the given stops were not
LimitsEnforced(l, limit) ==
  /\ TagsOf(limit) = <<"lower", "upper", "effort", "velocity">>
  /\ NumberAt(limit, "lower") <= NumberAt(limit, "upper")
  /\ {NumberAt(limit, "lower"), NumberAt(limit, "upper")} =
       {GivenLimits(l).lower, GivenLimits(l).upper}
  /\ NumberAt(limit, "effort") = GivenLimits(l).effort
  /\ NumberAt(limit, "velocity") = GivenLimits(l).velocity
  /\ Swapped(l) <=> GivenLimits(l).lower > GivenLimits(l).upper

\* C25: with the enforce-limits flag true and limits present, every emitted
\* revolute or prismatic joint (not continuous, not fixed) carries lower,
\* upper, effort and velocity in its limit element with lower <= upper, the
\* two being swapped, with a warning, when the input has lower > upper;
\* with the flag false, or for a continuous joint, none of the four is
\* emitted.
C25_LimitsEnforced ==
  Converted =>
    \A l \in Range(doc.names) : \A i \in 1..Len(JointsOf(l)) :
      IF /\ JointType(doc, l) \in {"REVOLUTE", "PRISMATIC"}
         /\ doc.enforceLimits
         /\ GivenLimits(l).present
      THEN LimitsEnforced(l, LimitOf(JointsOf(l)[i]))
      ELSE JointType(doc, l) \in {"REVOLUTE", "PRISMATIC", "CONTINUOUS"} =>
             TagsOf(LimitOf(JointsOf(l)[i])) = <<>>

\* a prismatic joint given with lower 1 and upper -1 was emitted with the
\* flag set
C25_Witness ==
  /\ Converted
  /\ doc.enforceLimits
  /\ \E l \in Range(doc.names) :
       /\ JointType(doc, l) = "PRISMATIC"
       /\ GivenLimits(l).present
       /\ GivenLimits(l).lower > GivenLimits(l).upper
       /\ Len(JointsOf(l)) = 1
       /\ NumberAt(LimitOf(JointsOf(l)[1]), "lower") = -1
       /\ Swapped(l)
----------------------------------------------------------------------------
(* C26 *)

\* the second sensor was just made from the first
CopyMade == ret.fn \in {"Sensor", "operator="}

\* C26: a Sensor made by the copy constructor or by copy assignment from a
\* sensor s compares equal to s: operator== returns true and operator!=
\* false, whatever Load and the setters made of s, an update rate that is not
\* zero included.
C26_CopyComparesEqual ==
  CopyMade =>
    /\ SensorEquals(sensor[2], sensor[1]) = {"true"}
    /\ SensorNotEquals(sensor[2], sensor[1]) = {"false"}

----------------------------------------------------------------------------
(* C27 *)

\* the operands of the last comparison
Left == sensor[NumeralValue(<<ret.arg[1]>>)]
Right == sensor[NumeralValue(<<ret.arg[2]>>)]

\* the pointer operator== dereferences for a sensor of that type
SubSensorOf(s) ==
  CASE s.type = "altimeter" -> s.altimeter
    [] s.type = "magnetometer" -> s.magnetometer
    [] s.type = "air_pressure" -> s.airPressure

\* C27: operator== never dereferences a null sub-sensor pointer: when it is
\* called on two sensors whose name, type, topic, pose, pose frame and
\* update rate match and the type is ALTIMETER, MAGNETOMETER or
\* AIR_PRESSURE, both sensors hold the object of that type.
C27_NoNullDereference ==
  (/\ ret.fn = "operator=="
   /\ ~EasyParametersDiffer(Left, Right)
   /\ Left.type \in {"altimeter", "magnetometer", "air_pressure"}) =>
    SubSensorOf(Left) # <<>> /\ SubSensorOf(Right) # <<>>

----------------------------------------------------------------------------
(* C28 *)

\* the type strings Load knows, with the type each one stands for
KnownTypes ==
  [t \in Range(sensorTypeStrs) \ {"none"} |-> t]
    @@ ("depth" :> "depth_camera") @@ ("gpu_ray" :> "gpu_lidar") @@ ("ray" :> "lidar")

\* C28: Load stops at the first failing check and returns one error for it:
\* null element, ELEMENT_MISSING; element that is no <sensor>,
\* ELEMENT_INCORRECT_TYPE; name not set, ATTRIBUTE_MISSING; type string not
\* known ("none" and the empty string included), ATTRIBUTE_INVALID.  For a
\* known type string the errors are those of the nested altimeter,
\* magnetometer or air-pressure load, and depth, gpu_ray and ray give the
\* type of depth_camera, gpu_lidar and lidar.
C28_LoadErrors ==
  ret.fn = "Load" =>
    IF sensor[1].sdf = <<>> THEN ret.val = <<"ELEMENT_MISSING">>
    ELSE IF sensor[1].sdf[1].tag # "sensor" THEN ret.val = <<"ELEMENT_INCORRECT_TYPE">>
    ELSE IF sensor[1].sdf[1].name = <<>> THEN ret.val = <<"ATTRIBUTE_MISSING">>
    ELSE IF sensor[1].sdf[1].type \notin DOMAIN KnownTypes
    THEN ret.val = <<"ATTRIBUTE_INVALID">>
    ELSE /\ sensor[1].type = KnownTypes[sensor[1].sdf[1].type]
         /\ ret.val = IF sensor[1].type \in {"altimeter", "magnetometer", "air_pressure"}
                      THEN sensor[1].sdf[1].errors
                      ELSE <<>>

\* a magnetometer was loaded with the error of its nested load, after an
\* element of type "ray" was
C28_Witness ==
  /\ ret.fn = "Load"
  /\ sensor[1].sdf # <<>>
  /\ sensor[1].sdf[1].type = "magnetometer"
  /\ ret.val = <<"ELEMENT_MISSING">>
  /\ sensor[1].magnetometer # <<>>
  /\ calls > 1
----------------------------------------------------------------------------
(* C29 *)

\* the <limit> element inside a <physics> element of a joint
StopsOfPhysics(physics) == ChildrenNamed(physics.sub[1], "limit")[1]

\* the element has a child of that tag exactly when the record has the
\* field set, and the child holds the field's value
EmittedWhenSet(limit, tag, ge, field) ==
  IF field \in ge.isSet
  THEN /\ Len(ChildrenNamed(limit, tag)) = 1
       /\ TextOf(limit, tag) = Values2str(ge.num[field])
  ELSE ChildrenNamed(limit, tag) = <<>>

\* the <physics> elements of a joint are those of its records, in order
StopsAsRecorded(j, recs) ==
  /\ Len(ChildrenNamed(j, "physics")) = Len(recs)
  /\ \A k \in 1..Len(recs) :
       /\ EmittedWhenSet(StopsOfPhysics(ChildrenNamed(j, "physics")[k]), "cfm",
                         recs[k], "stopCfm")
       /\ EmittedWhenSet(StopsOfPhysics(ChildrenNamed(j, "physics")[k]), "erp",
                         recs[k], "stopErp")

\* C29: InsertSDFExtensionJoint emits a record's stopCfm as the cfm of the
\* joint's limit element and its stopErp as the erp, each one only when the
\* record has the value set (isStopCfm, isStopErp).
C29_StopsEmitted ==
  Converted =>
    \A l \in Range(doc.names) : \A i \in 1..Len(JointsOf(l)) :
      StopsAsRecorded(JointsOf(l)[i], RecordsUnder(g_extensions, JointName(doc, l)))

----------------------------------------------------------------------------
(* C30 *)

RecordsOfLink(e) == RecordsUnder(g_extensions, Attribute(e, "name")[1])

LastRecord(e) == RecordsOfLink(e)[Len(RecordsOfLink(e))]

\* the link element has one child of that tag, holding the flag
SingleChild(e, tag, flag) ==
  Len(ChildrenNamed(e, tag)) = 1 /\ TextOf(e, tag) = BoolText(flag)

\* the places where a record of an emitted link replaces another value of
\* the flag than its own
Replacements(field) ==
  {<<i, k>> \in (1..Len(Emitted("link"))) \X (1..(MaxCalls * MaxExt)) :
     /\ k < Len(RecordsOfLink(Emitted("link")[i]))
     /\ RecordsOfLink(Emitted("link")[i])[k][field] #
          RecordsOfLink(Emitted("link")[i])[k + 1][field]}

Warnings(key) ==
  {i \in 1..Len(log) :
     log[i] = [level |-> "warn", what |-> "multiple inconsistent", about |-> key]}

\* C30: AddKeyValue keeps at most one child per key, the last one added,
\* with the value of the most recent call, and warns exactly when the value
\* it replaces differs; so a link with several extension records is emitted
\* with a single gravity and a single self_collide child, holding the value
\* of its last record.
C30_SingleChildOfLastRecord ==
  Converted =>
    /\ \A i \in 1..Len(Emitted("link")) :
         Len(RecordsOfLink(Emitted("link")[i])) > 1 =>
           /\ SingleChild(Emitted("link")[i], "gravity",
                          LastRecord(Emitted("link")[i]).gravity)
           /\ SingleChild(Emitted("link")[i], "self_collide",
                          LastRecord(Emitted("link")[i]).selfCollide)
    /\ Cardinality(Warnings("gravity")) = Cardinality(Replacements("gravity"))
    /\ Cardinality(Warnings("self_collide")) = Cardinality(Replacements("selfCollide"))

====
